---- MODULE Spec2Model ----
(***************************************************************************)
(* Hybrid language detection of context-ai:                                *)
(*   src/src/utils/hybridLanguageDetector.ts  (arbitration, FastText, LLM) *)
(*   src/unnamed/part_005                     (languageFilter.ts: scanner) *)
(*   src/src/services/qwenApi.ts              (detectTextLanguageWithAI)   *)
(* A text is the sequence of its UTF-16 code units (natural numbers).      *)
(* A confidence is an exact rational [n, d] with d > 0.                    *)
(***************************************************************************)
EXTENDS Integers, Sequences, FiniteSets, TLC

(***************************************************************************)
(* Bounds of the model.                                                    *)
(***************************************************************************)
MaxLen == 2
MaxLoads == 3

(***************************************************************************)
(* Rationals.                                                              *)
(***************************************************************************)
Rat(n, d) == [n |-> n, d |-> d]
RatGT(a, b) == a.n * b.d > b.n * a.d
RatGE(a, b) == a.n * b.d >= b.n * a.d
RatLT(a, b) == RatGT(b, a)
RatEQ(a, b) == a.n * b.d = b.n * a.d
RatMin(a, b) == IF RatLT(b, a) THEN b ELSE a

(***************************************************************************)
(* Character classes: LANGUAGE_PATTERNS of languageFilter.                 *)
(***************************************************************************)
\* lower bound mistyped as U+5E00
IsChinese_From5E00(c) == c >= 24064 /\ c <= 40869
IsChinese(c) == c >= 19968 /\ c <= 40869
\* the Hiragana block left out
IsJapanese_KatakanaOnly(c) == c >= 12448 /\ c <= 12543
IsJapanese(c) == (c >= 12352 /\ c <= 12447) \/ (c >= 12448 /\ c <= 12543)
\* e-acute counted as a German letter too
GermanChars_WithEAcute == {228, 246, 252, 223, 196, 214, 220, 233}

GermanChars == {228, 246, 252, 223, 196, 214, 220}
FrenchChars ==
  {224, 226, 233, 232, 234, 235, 238, 239, 244, 249, 251, 252, 255, 231, 339, 230,
   192, 194, 201, 200, 202, 203, 206, 207, 212, 217, 219, 220, 376, 199, 338, 198}
SpanishChars == {241, 191, 161, 209}
SpanishAccentedChars == {225, 233, 237, 243, 250, 252, 193, 201, 205, 211, 218, 220}
AllAccentedChars == ((192..222) \ {215}) \cup ((224..255) \ {247}) \cup {376}

\* The class \s of a JavaScript regular expression, which is also what
\* String.prototype.trim strips.
IsSpace(c) ==
  \/ c \in {9, 10, 11, 12, 13, 32, 160, 5760, 8232, 8233, 8239, 8287, 12288, 65279}
  \/ (c >= 8192 /\ c <= 8202)

\* the range A-Z left out
IsBasicAscii_NoUpper(c) ==
  \/ (c >= 97 /\ c <= 122)
  \/ (c >= 48 /\ c <= 57)
  \/ IsSpace(c)
  \/ c \in {46, 44, 33, 63, 59, 58, 39, 34, 40, 41, 45}

\* [a-zA-Z0-9\s.,!?;:'"()-]
IsBasicAscii(c) ==
  \/ (c >= 97 /\ c <= 122)
  \/ (c >= 65 /\ c <= 90)
  \/ (c >= 48 /\ c <= 57)
  \/ IsSpace(c)
  \/ c \in {46, 44, 33, 63, 59, 58, 39, 34, 40, 41, 45}

(***************************************************************************)
(* String helpers.                                                         *)
(***************************************************************************)
\* text.match(/[class]/g)?.length, 0 when there is no match
CountIf(text, P(_)) == Cardinality({i \in 1..Len(text) : P(text[i])})

CountIn(text, S) == LET P(c) == c \in S IN CountIf(text, P)

\* text.trim().length
TrimLength(text) ==
  LET nonsp == {i \in 1..Len(text) : ~IsSpace(text[i])}
  IN IF nonsp = {} THEN 0
     ELSE LET lo == CHOOSE i \in nonsp : \A j \in nonsp : i <= j
              hi == CHOOSE i \in nonsp : \A j \in nonsp : i >= j
          IN hi - lo + 1

\* text.trim()
Trim(text) ==
  LET nonsp == {i \in 1..Len(text) : ~IsSpace(text[i])}
  IN IF nonsp = {} THEN <<>>
     ELSE SubSeq(text, CHOOSE i \in nonsp : \A j \in nonsp : i <= j,
                       CHOOSE i \in nonsp : \A j \in nonsp : i >= j)

\* text.trim().split(/\s+/).filter(w => w.length > 0).length
WordCount(text) ==
  Cardinality({i \in 1..Len(text) :
                 /\ ~IsSpace(text[i])
                 /\ (i = 1 \/ IsSpace(text[i - 1]))})

(***************************************************************************)
(* languageFilter: scanCharacters, quickLanguageDetection, languageFilter. *)
(***************************************************************************)
scanCharacters(text) ==
  [chinese  |-> CountIf(text, IsChinese),
   japanese |-> CountIf(text, IsJapanese),
   german   |-> CountIn(text, GermanChars),
   french   |-> CountIn(text, FrenchChars),
   spanish  |-> CountIn(text, SpanishChars),
   accented |-> CountIn(text, AllAccentedChars),
   total    |-> Len(text)]

getCharStats(text) == scanCharacters(text)

\* rule 3 without the test for the inverted marks
quickLanguageDetection_EnyeOnly(stats, text) ==
  LET spanishAccented == CountIn(text, SpanishAccentedChars)
  IN
  IF stats.chinese > 0 THEN "zh"
  ELSE IF stats.japanese > 0 THEN "ja"
  ELSE IF stats.spanish > 0 /\ (\E i \in 1..Len(text) : text[i] \in {241, 209})
       THEN "es"
  ELSE IF /\ stats.german > 0 /\ stats.french = 0 /\ stats.spanish = 0
          /\ (stats.german >= 2
              \/ (stats.total > 0 /\ stats.german * 100 > 5 * stats.total))
       THEN "de"
  ELSE IF /\ stats.french > 0 /\ stats.german = 0 /\ stats.spanish = 0
          /\ (stats.french >= 2
              \/ (stats.total > 0 /\ stats.french * 100 > 5 * stats.total))
       THEN "fr"
  ELSE IF /\ stats.spanish = 0 /\ stats.accented > 0
          /\ spanishAccented >= 2
          /\ spanishAccented * 10 > 7 * stats.accented
       THEN "es"
  ELSE IF /\ stats.german = 0 /\ stats.french = 0
          /\ stats.spanish = 0 /\ stats.accented = 0
          /\ Len(text) > 0
          /\ \A i \in 1..Len(text) : IsBasicAscii(text[i])
       THEN "en"
  ELSE "null"

\* rule 4 without the test that no other marker is present
quickLanguageDetection_GermanFirst(stats, text) ==
  LET spanishAccented == CountIn(text, SpanishAccentedChars)
  IN
  IF stats.chinese > 0 THEN "zh"
  ELSE IF stats.japanese > 0 THEN "ja"
  ELSE IF stats.spanish > 0
          /\ ((\E i \in 1..Len(text) : text[i] \in {241, 209})
              \/ (\E j \in 1..Len(text) : text[j] \in {191, 161}))
       THEN "es"
  ELSE IF /\ stats.german > 0
          /\ (stats.german >= 2
              \/ (stats.total > 0 /\ stats.german * 100 > 5 * stats.total))
       THEN "de"
  ELSE IF /\ stats.french > 0 /\ stats.german = 0 /\ stats.spanish = 0
          /\ (stats.french >= 2
              \/ (stats.total > 0 /\ stats.french * 100 > 5 * stats.total))
       THEN "fr"
  ELSE IF /\ stats.spanish = 0 /\ stats.accented > 0
          /\ spanishAccented >= 2
          /\ spanishAccented * 10 > 7 * stats.accented
       THEN "es"
  ELSE IF /\ stats.german = 0 /\ stats.french = 0
          /\ stats.spanish = 0 /\ stats.accented = 0
          /\ Len(text) > 0
          /\ \A i \in 1..Len(text) : IsBasicAscii(text[i])
       THEN "en"
  ELSE "null"

\* "null" stands for the null of LanguageFilterResult.
quickLanguageDetection(stats, text) ==
  LET spanishAccented == CountIn(text, SpanishAccentedChars)
  IN
  IF stats.chinese > 0 THEN "zh"
  ELSE IF stats.japanese > 0 THEN "ja"
  ELSE IF stats.spanish > 0
          /\ ((\E i \in 1..Len(text) : text[i] \in {241, 209})
              \/ (\E j \in 1..Len(text) : text[j] \in {191, 161}))
       THEN "es"
  ELSE IF /\ stats.german > 0 /\ stats.french = 0 /\ stats.spanish = 0
          /\ (stats.german >= 2
              \/ (stats.total > 0 /\ stats.german * 100 > 5 * stats.total))
       THEN "de"
  ELSE IF /\ stats.french > 0 /\ stats.german = 0 /\ stats.spanish = 0
          /\ (stats.french >= 2
              \/ (stats.total > 0 /\ stats.french * 100 > 5 * stats.total))
       THEN "fr"
  ELSE IF /\ stats.spanish = 0 /\ stats.accented > 0
          /\ spanishAccented >= 2
          /\ spanishAccented * 10 > 7 * stats.accented
       THEN "es"
  ELSE IF /\ stats.german = 0 /\ stats.french = 0
          /\ stats.spanish = 0 /\ stats.accented = 0
          /\ Len(text) > 0
          /\ \A i \in 1..Len(text) : IsBasicAscii(text[i])
       THEN "en"
  ELSE "null"

languageFilter(text) ==
  IF TrimLength(text) = 0 THEN "null"
  ELSE IF TrimLength(text) < 2 THEN "en"
  ELSE quickLanguageDetection(scanCharacters(text), text)

(***************************************************************************)
(* DetectionResult.  NoResult stands for null.                             *)
(***************************************************************************)
Result(l, c, m, r) == [language |-> l, confidence |-> c, method |-> m, reasoning |-> r]
NoResult == Result("none", Rat(0, 1), "null", "null")
IsNull(r) == r.method = "null"

\* the ratio term dropped
Scaled_Flat(cap, base, slope, count, total) == RatMin(Rat(cap, 100), Rat(base, 100))

\* min(cap, base + (count / total) * slope), all of cap, base, slope in 1/100
Scaled(cap, base, slope, count, total) ==
  RatMin(Rat(cap, 100), Rat(base * total + slope * count, 100 * total))

\* the ideograph rule tested before the kana rule
detectWithCharScan_HanziFirst(text) ==
  LET stats == getCharStats(text)
  IN IF stats.chinese > 0
       THEN Result("zh", Scaled(98, 80, 18, stats.chinese, stats.total),
                   "charscan", "hanzi")
     ELSE IF stats.japanese > 0
       THEN Result("ja", Scaled(98, 80, 18, stats.japanese, stats.total),
                   "charscan", "kana")
     ELSE NoResult

\* the last test of the filter branch taken as inclusive
detectWithCharScan_AtLeast075(text) ==
  LET stats == getCharStats(text)
      filterResult == languageFilter(text)
      confidence ==
        IF filterResult = "de" /\ stats.german > 0
          THEN Scaled(95, 75, 20, stats.german, stats.total)
        ELSE IF filterResult = "fr" /\ stats.french > 0
          THEN Scaled(95, 75, 20, stats.french, stats.total)
        ELSE IF filterResult = "es" /\ stats.spanish > 0
          THEN Scaled(95, 75, 20, stats.spanish, stats.total)
        ELSE IF /\ filterResult = "en"
                /\ stats.german = 0 /\ stats.french = 0
                /\ stats.spanish = 0 /\ stats.accented = 0
          THEN Rat(80, 100)
        ELSE Rat(75, 100)
  IN
  IF stats.japanese > 0
       /\ (stats.japanese * 100 > 5 * stats.total \/ stats.japanese >= 1)
    THEN Result("ja", Scaled(98, 80, 18, stats.japanese, stats.total), "charscan", "kana")
  ELSE IF /\ stats.chinese > 0 /\ stats.japanese = 0
          /\ (stats.chinese * 100 > 5 * stats.total \/ stats.chinese >= 1)
    THEN Result("zh", Scaled(98, 80, 18, stats.chinese, stats.total), "charscan", "hanzi")
  ELSE IF filterResult # "null" /\ RatGE(confidence, Rat(75, 100))
    THEN Result(filterResult, confidence, "charscan", "filter")
  ELSE NoResult

\* English left at the base confidence of the filter branch
detectWithCharScan_EnglishAtBase(text) ==
  LET stats == getCharStats(text)
      filterResult == languageFilter(text)
      confidence ==
        IF filterResult = "de" /\ stats.german > 0
          THEN Scaled(95, 75, 20, stats.german, stats.total)
        ELSE IF filterResult = "fr" /\ stats.french > 0
          THEN Scaled(95, 75, 20, stats.french, stats.total)
        ELSE IF filterResult = "es" /\ stats.spanish > 0
          THEN Scaled(95, 75, 20, stats.spanish, stats.total)
        ELSE IF /\ filterResult = "en"
                /\ stats.german = 0 /\ stats.french = 0
                /\ stats.spanish = 0 /\ stats.accented = 0
          THEN Rat(75, 100)
        ELSE Rat(75, 100)
  IN
  IF stats.japanese > 0
       /\ (stats.japanese * 100 > 5 * stats.total \/ stats.japanese >= 1)
    THEN Result("ja", Scaled(98, 80, 18, stats.japanese, stats.total), "charscan", "kana")
  ELSE IF /\ stats.chinese > 0 /\ stats.japanese = 0
          /\ (stats.chinese * 100 > 5 * stats.total \/ stats.chinese >= 1)
    THEN Result("zh", Scaled(98, 80, 18, stats.chinese, stats.total), "charscan", "hanzi")
  ELSE IF filterResult # "null" /\ RatGT(confidence, Rat(75, 100))
    THEN Result(filterResult, confidence, "charscan", "filter")
  ELSE NoResult

\* the heuristic without its two script rules: only the filter decides
detectWithCharScan_FilterOnly(text) ==
  LET stats == getCharStats(text)
      filterResult == languageFilter(text)
      confidence ==
        IF filterResult = "de" /\ stats.german > 0
          THEN Scaled(95, 75, 20, stats.german, stats.total)
        ELSE IF filterResult = "fr" /\ stats.french > 0
          THEN Scaled(95, 75, 20, stats.french, stats.total)
        ELSE IF filterResult = "es" /\ stats.spanish > 0
          THEN Scaled(95, 75, 20, stats.spanish, stats.total)
        ELSE IF /\ filterResult = "en"
                /\ stats.german = 0 /\ stats.french = 0
                /\ stats.spanish = 0 /\ stats.accented = 0
          THEN Rat(80, 100)
        ELSE Rat(75, 100)
  IN
  IF filterResult # "null" /\ RatGT(confidence, Rat(75, 100))
    THEN Result(filterResult, confidence, "charscan", "filter")
  ELSE NoResult

detectWithCharScan(text) ==
  LET stats == getCharStats(text)
      filterResult == languageFilter(text)
      confidence ==
        IF filterResult = "de" /\ stats.german > 0
          THEN Scaled(95, 75, 20, stats.german, stats.total)
        ELSE IF filterResult = "fr" /\ stats.french > 0
          THEN Scaled(95, 75, 20, stats.french, stats.total)
        ELSE IF filterResult = "es" /\ stats.spanish > 0
          THEN Scaled(95, 75, 20, stats.spanish, stats.total)
        ELSE IF /\ filterResult = "en"
                /\ stats.german = 0 /\ stats.french = 0
                /\ stats.spanish = 0 /\ stats.accented = 0
          THEN Rat(80, 100)
        ELSE Rat(75, 100)
  IN
  IF stats.japanese > 0
       /\ (stats.japanese * 100 > 5 * stats.total \/ stats.japanese >= 1)
    THEN Result("ja", Scaled(98, 80, 18, stats.japanese, stats.total), "charscan", "kana")
  ELSE IF /\ stats.chinese > 0 /\ stats.japanese = 0
          /\ (stats.chinese * 100 > 5 * stats.total \/ stats.chinese >= 1)
    THEN Result("zh", Scaled(98, 80, 18, stats.chinese, stats.total), "charscan", "hanzi")
  ELSE IF filterResult # "null" /\ RatGT(confidence, Rat(75, 100))
    THEN Result(filterResult, confidence, "charscan", "filter")
  ELSE NoResult

\* Confidence in 1/100.
calculateLocalConfidence(text, charScanResult) ==
  LET stats == getCharStats(text)
      wordCount == WordCount(text)
      specialCharCount == stats.german + stats.french + stats.spanish
  IN
  IF ~IsNull(charScanResult) /\ RatGT(charScanResult.confidence, Rat(80, 100))
    THEN Rat(85, 100)
  ELSE IF stats.japanese > 0 \/ stats.chinese > 0 THEN Rat(85, 100)
  ELSE IF stats.german > 0 \/ stats.french > 0 \/ stats.spanish > 0
    THEN IF specialCharCount * 10 > stats.total \/ specialCharCount >= 2
           THEN Rat(80, 100)
           ELSE Rat(60, 100)
  ELSE IF wordCount >= 5 THEN Rat(65, 100)
  ELSE IF wordCount >= 3 THEN Rat(55, 100)
  ELSE IF wordCount <= 2 THEN Rat(30, 100)
  ELSE Rat(50, 100)

\* the result of the heuristic kept only above the threshold of the async function
hybridLanguageDetectSync_Thresholded(text) ==
  LET charScanResult == detectWithCharScan(text)
  IN IF ~IsNull(charScanResult) /\ RatGT(charScanResult.confidence, Rat(85, 100))
       THEN charScanResult
     ELSE Result("en", Rat(50, 100), "fallback", "sync_default")

hybridLanguageDetectSync(text) ==
  LET charScanResult == detectWithCharScan(text)
  IN IF ~IsNull(charScanResult) THEN charScanResult
     ELSE Result("en", Rat(50, 100), "fallback", "sync_default")

(***************************************************************************)
(* qwenApi: detectTextLanguage, the rule-based detector that               *)
(* detectTextLanguageWithAI falls back to when the request fails.          *)
(***************************************************************************)
\* englishWords (qwenApi.ts:595), each word as its code units
englishWords ==
  {<<116, 104, 101>>, <<97>>, <<97, 110>>, <<97, 110, 100>>, <<111, 114>>, <<98, 117, 116>>,
   <<105, 110>>, <<111, 110>>, <<97, 116>>, <<116, 111>>, <<102, 111, 114>>, <<111, 102>>,
   <<119, 105, 116, 104>>, <<98, 121>>, <<102, 114, 111, 109>>, <<97, 115>>, <<105, 115>>,
   <<97, 114, 101>>, <<119, 97, 115>>, <<119, 101, 114, 101>>, <<98, 101>>,
   <<98, 101, 101, 110>>, <<98, 101, 105, 110, 103>>, <<104, 97, 118, 101>>, <<104, 97, 115>>,
   <<104, 97, 100>>, <<100, 111>>, <<100, 111, 101, 115>>, <<100, 105, 100>>,
   <<119, 105, 108, 108>>, <<119, 111, 117, 108, 100>>, <<115, 104, 111, 117, 108, 100>>,
   <<99, 111, 117, 108, 100>>, <<99, 97, 110>>, <<109, 97, 121>>, <<109, 105, 103, 104, 116>>,
   <<109, 117, 115, 116>>, <<115, 104, 97, 108, 108>>, <<116, 104, 105, 115>>,
   <<116, 104, 97, 116>>, <<116, 104, 101, 115, 101>>, <<116, 104, 111, 115, 101>>, <<105>>,
   <<121, 111, 117>>, <<104, 101>>, <<115, 104, 101>>, <<105, 116>>, <<119, 101>>,
   <<116, 104, 101, 121>>, <<109, 101>>, <<104, 105, 109>>, <<104, 101, 114>>, <<117, 115>>,
   <<116, 104, 101, 109>>, <<109, 121>>, <<121, 111, 117, 114>>, <<104, 105, 115>>,
   <<105, 116, 115>>, <<111, 117, 114>>, <<116, 104, 101, 105, 114>>, <<119, 104, 97, 116>>,
   <<119, 104, 105, 99, 104>>, <<119, 104, 111>>, <<119, 104, 111, 109>>,
   <<119, 104, 111, 115, 101>>, <<119, 104, 101, 114, 101>>, <<119, 104, 101, 110>>,
   <<119, 104, 121>>, <<104, 111, 119>>, <<97, 108, 108>>, <<115, 111, 109, 101>>,
   <<97, 110, 121>>, <<109, 97, 110, 121>>, <<109, 117, 99, 104>>, <<109, 111, 114, 101>>,
   <<109, 111, 115, 116>>, <<102, 101, 119>>, <<108, 105, 116, 116, 108, 101>>,
   <<108, 101, 115, 115>>, <<108, 101, 97, 115, 116>>, <<103, 111, 111, 100>>, <<98, 97, 100>>,
   <<98, 105, 103>>, <<115, 109, 97, 108, 108>>, <<108, 97, 114, 103, 101>>,
   <<108, 111, 110, 103>>, <<115, 104, 111, 114, 116>>, <<104, 105, 103, 104>>,
   <<108, 111, 119>>, <<110, 101, 119>>, <<111, 108, 100>>, <<121, 111, 117, 110, 103>>,
   <<114, 105, 103, 104, 116>>, <<119, 114, 111, 110, 103>>, <<116, 114, 117, 101>>,
   <<102, 97, 108, 115, 101>>, <<121, 101, 115>>, <<110, 111>>, <<110, 111, 116>>,
   <<118, 101, 114, 121>>, <<116, 111, 111>>, <<115, 111>>, <<97, 108, 115, 111>>,
   <<106, 117, 115, 116>>, <<111, 110, 108, 121>>, <<101, 118, 101, 110>>,
   <<115, 116, 105, 108, 108>>, <<121, 101, 116>>, <<97, 108, 114, 101, 97, 100, 121>>,
   <<104, 101, 114, 101>>, <<116, 104, 101, 114, 101>>, <<110, 111, 119>>,
   <<116, 104, 101, 110>>, <<116, 111, 100, 97, 121>>,
   <<116, 111, 109, 111, 114, 114, 111, 119>>, <<121, 101, 115, 116, 101, 114, 100, 97, 121>>,
   <<97, 108, 119, 97, 121, 115>>, <<110, 101, 118, 101, 114>>, <<111, 102, 116, 101, 110>>,
   <<115, 111, 109, 101, 116, 105, 109, 101, 115>>, <<117, 115, 117, 97, 108, 108, 121>>,
   <<119, 101, 108, 108>>, <<98, 101, 116, 116, 101, 114>>, <<98, 101, 115, 116>>,
   <<119, 111, 114, 115, 101>>, <<119, 111, 114, 115, 116>>, <<113, 117, 105, 116, 101>>,
   <<114, 101, 97, 108, 108, 121>>, <<115, 117, 99, 104>>, <<97, 98, 111, 117, 116>>,
   <<97, 98, 111, 118, 101>>, <<97, 99, 114, 111, 115, 115>>, <<97, 102, 116, 101, 114>>,
   <<97, 103, 97, 105, 110, 115, 116>>, <<97, 108, 111, 110, 103>>, <<97, 109, 111, 110, 103>>,
   <<97, 114, 111, 117, 110, 100>>, <<98, 101, 102, 111, 114, 101>>,
   <<98, 101, 104, 105, 110, 100>>, <<98, 101, 108, 111, 119>>,
   <<98, 101, 110, 101, 97, 116, 104>>, <<98, 101, 115, 105, 100, 101>>,
   <<98, 101, 116, 119, 101, 101, 110>>, <<98, 101, 121, 111, 110, 100>>,
   <<100, 117, 114, 105, 110, 103>>, <<101, 120, 99, 101, 112, 116>>,
   <<105, 110, 115, 105, 100, 101>>, <<111, 117, 116, 115, 105, 100, 101>>,
   <<116, 104, 114, 111, 117, 103, 104>>, <<116, 104, 114, 111, 117, 103, 104, 111, 117, 116>>,
   <<117, 110, 100, 101, 114>>, <<117, 110, 100, 101, 114, 110, 101, 97, 116, 104>>,
   <<117, 110, 116, 105, 108>>, <<117, 112, 111, 110>>, <<119, 105, 116, 104, 105, 110>>,
   <<119, 105, 116, 104, 111, 117, 116>>}

\* frenchWords (qwenApi.ts:598), each word as its code units
frenchWords ==
  {<<108, 101>>, <<108, 97>>, <<108, 101, 115>>, <<117, 110>>, <<117, 110, 101>>,
   <<100, 101, 115>>, <<101, 116>>, <<111, 117>>, <<100, 97, 110, 115>>, <<115, 117, 114>>,
   <<97, 118, 101, 99>>, <<112, 111, 117, 114>>, <<112, 97, 114>>, <<100, 101>>, <<100, 117>>,
   <<100, 101, 32, 108, 97>>, <<101, 115, 116>>, <<115, 111, 110, 116>>,
   <<234, 116, 114, 101>>, <<97, 118, 111, 105, 114>>, <<102, 97, 105, 114, 101>>,
   <<97, 108, 108, 101, 114>>, <<118, 101, 110, 105, 114>>, <<118, 111, 105, 114>>,
   <<115, 97, 118, 111, 105, 114>>, <<112, 111, 117, 118, 111, 105, 114>>,
   <<118, 111, 117, 108, 111, 105, 114>>, <<100, 101, 118, 111, 105, 114>>,
   <<102, 97, 108, 108, 111, 105, 114>>, <<105, 108>>, <<101, 108, 108, 101>>,
   <<110, 111, 117, 115>>, <<118, 111, 117, 115>>, <<105, 108, 115>>,
   <<101, 108, 108, 101, 115>>, <<99, 101>>, <<231, 97>>, <<113, 117, 105>>, <<113, 117, 101>>,
   <<113, 117, 111, 105>>, <<111, 249>>, <<99, 111, 109, 109, 101, 110, 116>>,
   <<112, 111, 117, 114, 113, 117, 111, 105>>, <<113, 117, 97, 110, 100>>,
   <<99, 111, 109, 98, 105, 101, 110>>, <<111, 117, 105>>, <<110, 111, 110>>,
   <<109, 101, 114, 99, 105>>, <<98, 111, 110, 106, 111, 117, 114>>,
   <<97, 117, 32, 114, 101, 118, 111, 105, 114>>,
   <<115, 39, 105, 108, 32, 118, 111, 117, 115, 32, 112, 108, 97, 238, 116>>,
   <<101, 120, 99, 117, 115, 101, 122, 45, 109, 111, 105>>, <<106, 101>>, <<116, 117>>,
   <<109, 111, 110>>, <<109, 97>>, <<109, 101, 115>>, <<116, 111, 110>>, <<116, 97>>,
   <<116, 101, 115>>, <<115, 111, 110>>, <<115, 97>>, <<115, 101, 115>>,
   <<110, 111, 116, 114, 101>>, <<118, 111, 116, 114, 101>>, <<108, 101, 117, 114>>,
   <<108, 101, 117, 114, 115>>, <<99, 101, 116, 116, 101>>, <<99, 101, 115>>,
   <<116, 111, 117, 116>>, <<116, 111, 117, 116, 101>>, <<116, 111, 117, 115>>,
   <<116, 111, 117, 116, 101, 115>>, <<116, 114, 232, 115>>, <<112, 108, 117, 115>>,
   <<109, 111, 105, 110, 115>>, <<97, 117, 115, 115, 105>>, <<101, 110, 99, 111, 114, 101>>,
   <<100, 233, 106, 224>>, <<116, 111, 117, 106, 111, 117, 114, 115>>,
   <<106, 97, 109, 97, 105, 115>>, <<109, 97, 105, 110, 116, 101, 110, 97, 110, 116>>,
   <<97, 117, 106, 111, 117, 114, 100, 39, 104, 117, 105>>, <<100, 101, 109, 97, 105, 110>>,
   <<104, 105, 101, 114>>, <<105, 99, 105>>, <<108, 224>>,
   <<98, 101, 97, 117, 99, 111, 117, 112>>, <<112, 101, 117>>, <<97, 115, 115, 101, 122>>,
   <<116, 114, 111, 112>>, <<98, 105, 101, 110>>, <<109, 97, 108>>, <<98, 111, 110>>,
   <<109, 97, 117, 118, 97, 105, 115>>, <<103, 114, 97, 110, 100>>,
   <<112, 101, 116, 105, 116>>, <<110, 111, 117, 118, 101, 97, 117>>,
   <<118, 105, 101, 117, 120>>, <<106, 101, 117, 110, 101>>,
   <<118, 105, 101, 105, 108, 108, 101>>, <<98, 101, 97, 117>>, <<98, 101, 108, 108, 101>>,
   <<106, 111, 108, 105>>, <<106, 111, 108, 105, 101>>}

\* germanWords (qwenApi.ts:602), each word as its code units
germanWords ==
  {<<100, 101, 114>>, <<100, 105, 101>>, <<100, 97, 115>>, <<104, 97, 98, 101, 110>>,
   <<115, 101, 105, 110>>, <<119, 101, 114, 100, 101, 110>>, <<107, 246, 110, 110, 101, 110>>,
   <<109, 252, 115, 115, 101, 110>>, <<115, 111, 108, 108, 116, 101, 110>>,
   <<119, 101, 110, 110>>, <<97, 98, 101, 114>>, <<111, 100, 101, 114>>,
   <<100, 117, 114, 99, 104>>, <<103, 101, 103, 101, 110>>, <<111, 104, 110, 101>>,
   <<117, 109>>, <<115, 101, 105, 116>>, <<119, 228, 104, 114, 101, 110, 100>>,
   <<119, 101, 103, 101, 110>>, <<116, 114, 111, 116, 122>>, <<115, 116, 97, 116, 116>>,
   <<97, 117, 223, 101, 114>>, <<105, 110, 110, 101, 114, 104, 97, 108, 98>>,
   <<97, 117, 223, 101, 114, 104, 97, 108, 98>>, <<100, 97, 110, 107>>,
   <<103, 101, 109, 228, 223>>, <<101, 110, 116, 115, 112, 114, 101, 99, 104, 101, 110, 100>>,
   <<122, 117, 102, 111, 108, 103, 101>>, <<97, 110, 108, 228, 115, 115, 108, 105, 99, 104>>,
   <<104, 105, 110, 115, 105, 99, 104, 116, 108, 105, 99, 104>>,
   <<98, 101, 122, 252, 103, 108, 105, 99, 104>>, <<98, 101, 116, 114, 101, 102, 102, 115>>,
   <<101, 105, 110, 115, 99, 104, 108, 105, 101, 223, 108, 105, 99, 104>>,
   <<101, 120, 107, 108, 117, 115, 105, 118, 101>>,
   <<105, 110, 107, 108, 117, 115, 105, 118, 101>>, <<107, 111, 110, 116, 114, 97>>,
   <<98, 105, 115>>, <<105, 99, 104>>, <<100, 117>>, <<101, 114>>, <<115, 105, 101>>,
   <<101, 115>>, <<119, 105, 114>>, <<105, 104, 114>>, <<109, 101, 105, 110>>,
   <<100, 101, 105, 110>>, <<117, 110, 115, 101, 114>>, <<101, 117, 101, 114>>,
   <<100, 105, 101, 115, 101, 114>>, <<106, 101, 110, 101, 114>>,
   <<119, 101, 108, 99, 104, 101, 114>>, <<97, 108, 108, 101>>, <<109, 97, 110, 99, 104, 101>>,
   <<118, 105, 101, 108, 101>>, <<119, 101, 110, 105, 103, 101>>,
   <<101, 105, 110, 105, 103, 101>>, <<107, 101, 105, 110, 101>>, <<110, 105, 99, 104, 116>>,
   <<97, 117, 99, 104>>, <<110, 111, 99, 104>>, <<115, 99, 104, 111, 110>>,
   <<105, 109, 109, 101, 114>>, <<110, 105, 101>>, <<106, 101, 116, 122, 116>>,
   <<104, 101, 117, 116, 101>>, <<109, 111, 114, 103, 101, 110>>,
   <<103, 101, 115, 116, 101, 114, 110>>, <<104, 105, 101, 114>>, <<100, 111, 114, 116>>,
   <<119, 111>>, <<119, 105, 101>>, <<119, 97, 114, 117, 109>>, <<119, 97, 110, 110>>,
   <<119, 97, 115>>, <<119, 101, 114>>, <<119, 101, 108, 99, 104, 101>>,
   <<119, 101, 108, 99, 104, 101, 115>>, <<103, 114, 111, 223>>, <<107, 108, 101, 105, 110>>,
   <<110, 101, 117>>, <<97, 108, 116>>, <<106, 117, 110, 103>>, <<115, 99, 104, 246, 110>>,
   <<104, 228, 115, 115, 108, 105, 99, 104>>, <<103, 117, 116>>,
   <<115, 99, 104, 108, 101, 99, 104, 116>>, <<118, 105, 101, 108>>,
   <<119, 101, 110, 105, 103>>, <<109, 101, 104, 114>>, <<119, 101, 110, 105, 103, 101, 114>>,
   <<115, 101, 104, 114>>, <<103, 101, 110, 117, 103>>,
   <<110, 105, 99, 104, 116, 32, 103, 101, 110, 117, 103>>, <<252, 98, 101, 114>>,
   <<117, 110, 116, 101, 114>>, <<118, 111, 114>>, <<110, 97, 99, 104>>, <<98, 101, 105>>}

\* spanishWords (qwenApi.ts:606), each word as its code units
spanishWords ==
  {<<101, 108>>, <<108, 97>>, <<108, 111, 115>>, <<108, 97, 115>>, <<117, 110>>,
   <<117, 110, 97>>, <<115, 101, 114>>, <<101, 115, 116, 97, 114>>,
   <<116, 101, 110, 101, 114>>, <<104, 97, 99, 101, 114>>, <<118, 101, 110, 105, 114>>,
   <<115, 97, 98, 101, 114>>, <<112, 111, 100, 101, 114>>, <<113, 117, 101, 114, 101, 114>>,
   <<100, 101, 98, 101, 114>>, <<121, 111>>, <<116, 250>>, <<233, 108>>, <<101, 108, 108, 97>>,
   <<110, 111, 115, 111, 116, 114, 111, 115>>, <<118, 111, 115, 111, 116, 114, 111, 115>>,
   <<101, 108, 108, 111, 115>>, <<101, 108, 108, 97, 115>>, <<101, 115, 116, 101>>,
   <<101, 115, 101>>, <<97, 113, 117, 101, 108>>, <<101, 115, 116, 97>>, <<101, 115, 97>>,
   <<97, 113, 117, 101, 108, 108, 97>>, <<101, 115, 116, 111, 115>>, <<101, 115, 111, 115>>,
   <<97, 113, 117, 101, 108, 108, 111, 115>>, <<101, 115, 116, 97, 115>>,
   <<101, 115, 97, 115>>, <<97, 113, 117, 101, 108, 108, 97, 115>>,
   <<110, 117, 101, 115, 116, 114, 111>>, <<118, 117, 101, 115, 116, 114, 111>>,
   <<109, 237, 111>>, <<116, 117, 121, 111>>, <<115, 117, 121, 111>>, <<109, 117, 121>>,
   <<109, 225, 115>>, <<109, 101, 110, 111, 115>>, <<116, 97, 109, 98, 105, 233, 110>>,
   <<116, 97, 109, 112, 111, 99, 111>>, <<115, 105, 101, 109, 112, 114, 101>>,
   <<110, 117, 110, 99, 97>>, <<97, 104, 111, 114, 97>>, <<104, 111, 121>>,
   <<109, 97, 241, 97, 110, 97>>, <<97, 121, 101, 114>>, <<97, 113, 117, 237>>,
   <<97, 108, 108, 237>>, <<100, 243, 110, 100, 101>>, <<99, 243, 109, 111>>,
   <<112, 111, 114, 32, 113, 117, 233>>, <<99, 117, 225, 110, 100, 111>>,
   <<99, 117, 225, 110, 116, 111>>, <<113, 117, 233>>, <<113, 117, 105, 233, 110>>,
   <<99, 117, 225, 108>>, <<109, 117, 99, 104, 111>>, <<112, 111, 99, 111>>,
   <<98, 97, 115, 116, 97, 110, 116, 101>>, <<100, 101, 109, 97, 115, 105, 97, 100, 111>>,
   <<98, 117, 101, 110, 111>>, <<109, 97, 108, 111>>, <<103, 114, 97, 110, 100, 101>>,
   <<112, 101, 113, 117, 101, 241, 111>>, <<110, 117, 101, 118, 111>>,
   <<118, 105, 101, 106, 111>>, <<106, 111, 118, 101, 110>>,
   <<104, 101, 114, 109, 111, 115, 111>>, <<102, 101, 111>>,
   <<103, 114, 97, 99, 105, 97, 115>>, <<112, 111, 114, 32, 102, 97, 118, 111, 114>>,
   <<100, 101, 32, 110, 97, 100, 97>>, <<104, 111, 108, 97>>, <<97, 100, 105, 243, 115>>,
   <<112, 101, 114, 100, 243, 110>>, <<108, 111, 32, 115, 105, 101, 110, 116, 111>>,
   <<115, 237>>}

\* String.prototype.toLowerCase on one code unit (Basic Latin, Latin-1, OE, Y diaeresis)
LowerChar(c) ==
  IF c >= 65 /\ c <= 90 THEN c + 32
  ELSE IF c >= 192 /\ c <= 222 /\ c # 215 THEN c + 32
  ELSE IF c = 338 THEN 339
  ELSE IF c = 376 THEN 255
  ELSE c

toLowerCase(text) == [i \in 1..Len(text) |-> LowerChar(text[i])]

\* \w of a regular expression without the u flag
IsWordChar(c) ==
  \/ (c >= 97 /\ c <= 122)
  \/ (c >= 65 /\ c <= 90)
  \/ (c >= 48 /\ c <= 57)
  \/ c = 95

\* \b holds between position p - 1 and position p
WordBoundary(text, p) ==
  LET before == p > 1 /\ IsWordChar(text[p - 1])
      after == p <= Len(text) /\ IsWordChar(text[p])
  IN before # after

\* /\b(w1|w2|...)\b/i.test(lowerText)
RegexTest(words, lowerText) ==
  \E i \in 1..Len(lowerText) : \E j \in i..Len(lowerText) :
    /\ WordBoundary(lowerText, i)
    /\ WordBoundary(lowerText, j + 1)
    /\ SubSeq(lowerText, i, j) \in words

\* (lowerText.match(/\b(...)\b/i) || []).length: the regular expression has no
\* g flag, so a match is the array [whole match, group 1]
MatchLength(words, lowerText) == IF RegexTest(words, lowerText) THEN 2 ELSE 0

Max2(a, b) == IF a >= b THEN a ELSE b

\* [fr, de, es].filter(count > 0).sort((a, b) => b.count - a.count): a stable
\* sort, so equal counts keep the order fr, de, es
SortedCharCounts(fr, de, es) ==
  LET all == <<[lang |-> "fr", count |-> fr], [lang |-> "de", count |-> de],
               [lang |-> "es", count |-> es]>>
      kept == SelectSeq(all, LAMBDA item : item.count > 0)
      Before(k, m) == \/ kept[k].count > kept[m].count
                      \/ (kept[k].count = kept[m].count /\ k < m)
      Rank(k) == 1 + Cardinality({m \in 1..Len(kept) : m # k /\ Before(m, k)})
  IN [r \in 1..Len(kept) |-> kept[CHOOSE k \in 1..Len(kept) : Rank(k) = r]]

detectTextLanguage(text) ==
  LET lowerText == toLowerCase(text)
      frenchCharCount == CountIn(text, FrenchChars)
      germanCharCount == CountIn(text, GermanChars)
      spanishCharCount == CountIn(text, SpanishChars \cup SpanishAccentedChars)
      en == RegexTest(englishWords, lowerText)
      fr == RegexTest(frenchWords, lowerText)
      de == RegexTest(germanWords, lowerText)
      es == RegexTest(spanishWords, lowerText)
      englishWordCount == MatchLength(englishWords, lowerText)
      germanWordCount == MatchLength(germanWords, lowerText)
      frenchWordCount == MatchLength(frenchWords, lowerText)
      spanishWordCount == MatchLength(spanishWords, lowerText)
      charCounts == SortedCharCounts(frenchCharCount, germanCharCount, spanishCharCount)
      n == Len(charCounts)
  IN
  IF \E i \in 1..Len(text) : IsJapanese(text[i]) THEN "ja"
  ELSE IF \E i \in 1..Len(text) : IsChinese(text[i]) THEN "en"
  ELSE IF n > 1 /\ charCounts[1].count > charCounts[2].count THEN charCounts[1].lang
  ELSE IF n > 1 /\ charCounts[1].lang = "fr" /\ fr /\ ~de /\ ~es /\ ~en THEN "fr"
  ELSE IF n > 1 /\ charCounts[1].lang = "de" /\ de /\ ~fr /\ ~es /\ ~en THEN "de"
  ELSE IF n > 1 /\ charCounts[1].lang = "es" /\ es /\ ~fr /\ ~de /\ ~en THEN "es"
  ELSE IF spanishCharCount > 0 /\ (\E i \in 1..Len(text) : text[i] \in {241, 191, 161})
    THEN "es"
  ELSE IF spanishCharCount > 0 /\ es /\ ~en THEN "es"
  ELSE IF frenchCharCount > 0 /\ fr /\ ~en THEN "fr"
  ELSE IF germanCharCount > 0 /\ de /\ ~en THEN "de"
  ELSE IF n > 0 THEN
    IF n = 1 \/ charCounts[1].count > charCounts[2].count * 2 THEN charCounts[1].lang
    ELSE IF /\ charCounts[1].lang = "de" /\ germanWordCount > 0
            /\ germanWordCount >= englishWordCount THEN "de"
    ELSE IF /\ charCounts[1].lang = "fr" /\ frenchWordCount > 0
            /\ frenchWordCount >= englishWordCount THEN "fr"
    ELSE IF /\ charCounts[1].lang = "es" /\ spanishWordCount > 0
            /\ spanishWordCount >= englishWordCount THEN "es"
    ELSE charCounts[1].lang
  ELSE IF /\ englishWordCount >= 3
          /\ englishWordCount >
               Max2(spanishWordCount, Max2(frenchWordCount, germanWordCount)) * 2
    THEN "en"
  ELSE IF germanWordCount >= 2 /\ germanWordCount > englishWordCount THEN "de"
  ELSE IF frenchWordCount >= 2 /\ frenchWordCount > englishWordCount THEN "fr"
  ELSE IF spanishWordCount >= 2 /\ spanishWordCount > englishWordCount THEN "es"
  ELSE "en"

(***************************************************************************)
(* qwenApi: detectTextLanguageWithAI.  The remote answer is a record:      *)
(*   kind      "neterr" (fetch rejects), "nonok" (response.ok is false),   *)
(*             "badjson" (response.json() rejects) or "content"            *)
(*   json      "none" (no {...} in the content), "invalid" (JSON.parse     *)
(*             throws) or "valid"                                          *)
(*   jsonLang  the language property of the parsed object                  *)
(*   textLang  the code after "language:" in the content, "none" if absent *)
(***************************************************************************)
LlmAccepted == {"en", "de", "fr", "ja", "es"}

\* String.prototype.toLowerCase on the language codes the providers send
LowerTag(tag) ==
  CASE tag = "DE" -> "de"
    [] tag = "ZH-TW" -> "zh-tw"
    [] tag = "FR" -> "fr"
    [] OTHER -> tag

Answer(k, j, jl, tl) == [kind |-> k, json |-> j, jsonLang |-> jl, textLang |-> tl]

LlmAnswers ==
  {Answer("neterr", "none", "undefined", "none"),
   Answer("nonok", "none", "undefined", "none"),
   Answer("badjson", "none", "undefined", "none"),
   Answer("content", "valid", "de", "none"),
   Answer("content", "valid", "FR", "none"),
   Answer("content", "valid", "zh", "none"),
   Answer("content", "valid", "undefined", "ja"),
   Answer("content", "invalid", "undefined", "es"),
   Answer("content", "invalid", "undefined", "none"),
   Answer("content", "none", "undefined", "ko"),
   Answer("content", "none", "undefined", "none")}

detectTextLanguageWithAI(text, answer) ==
  IF answer.kind # "content" THEN detectTextLanguage(text)
  ELSE IF answer.json = "valid" /\ LowerTag(answer.jsonLang) \in LlmAccepted
    THEN LowerTag(answer.jsonLang)
  ELSE IF answer.textLang # "none" /\ LowerTag(answer.textLang) \in LlmAccepted
    THEN LowerTag(answer.textLang)
  ELSE "en"

\* detectWithLLM, once detectTextLanguageWithAI has settled
detectWithLLM(text, answer) ==
  Result(detectTextLanguageWithAI(text, answer), Rat(85, 100), "llm", "llm")

(***************************************************************************)
(* FastText provider: what identify() may resolve to.                      *)
(***************************************************************************)
SupportedLanguages == {"en", "de", "fr", "ja", "es", "zh"}

LANGUAGE_CODE_MAP ==
  [tag \in {"en", "de", "fr", "ja", "es", "zh", "zh-cn", "zh-tw"} |->
     IF tag \in {"zh-cn", "zh-tw"} THEN "zh" ELSE tag]

\* alpha2 as the model reports it; "undefined" when the property is missing
Alpha2Values == {"en", "de", "fr", "ja", "es", "zh", "ZH-TW", "ko", "undefined"}

\* score; Rat(0, 1) also stands for a missing score (result.score || 0)
ScoreValues == {Rat(0, 1), Rat(85, 100), Rat(86, 100), Rat(12, 10)}

IdentifyResults == [alpha2 : Alpha2Values, score : ScoreValues]

\* the tag of the model returned as it comes, without LANGUAGE_CODE_MAP
FastTextResult_Unmapped(identified) ==
  LET confidence == identified.score
      key == IF identified.alpha2 = "undefined" THEN "" ELSE LowerTag(identified.alpha2)
  IN IF RatGT(confidence, Rat(85, 100))
       THEN Result(key, confidence, "fasttext", "fasttext")
       ELSE NoResult

\* the confidence floor taken as inclusive
FastTextResult_AtLeast085(identified) ==
  LET confidence == identified.score
      key == IF identified.alpha2 = "undefined" THEN "" ELSE LowerTag(identified.alpha2)
  IN IF /\ RatGE(confidence, Rat(85, 100))
        /\ key \in DOMAIN LANGUAGE_CODE_MAP
        /\ LANGUAGE_CODE_MAP[key] \in SupportedLanguages
       THEN Result(LANGUAGE_CODE_MAP[key], confidence, "fasttext", "fasttext")
       ELSE NoResult

\* detectWithFastText, lines 153-172: the result of identify() to a DetectionResult
FastTextResult(identified) ==
  LET confidence == identified.score
      key == IF identified.alpha2 = "undefined" THEN "" ELSE LowerTag(identified.alpha2)
  IN IF /\ RatGT(confidence, Rat(85, 100))
        /\ key \in DOMAIN LANGUAGE_CODE_MAP
        /\ LANGUAGE_CODE_MAP[key] \in SupportedLanguages
       THEN Result(LANGUAGE_CODE_MAP[key], confidence, "fasttext", "fasttext")
       ELSE NoResult

(***************************************************************************)
(* Input texts.                                                            *)
(***************************************************************************)
TextIn == <<105, 110>>
TextHelloWorld == <<72, 101, 108, 108, 111, 32, 119, 111, 114, 108, 100>>
TextDerMann ==
  <<68, 101, 114, 32, 77, 97, 110, 110, 32, 105, 115, 116, 32, 103, 114, 111, 223>>
TextComoEstas == <<191, 67, 243, 109, 111, 32, 101, 115, 116, 225, 115, 63>>
TextBlank == <<32, 9, 10, 12288>>
\* "le caf\u00e9 noir est bien chaud": one accented letter among 27 code units
TextCafeNoir ==
  <<108, 101, 32, 99, 97, 102, 233, 32, 110, 111, 105, 114, 32, 101, 115, 116, 32,
    98, 105, 101, 110, 32, 99, 104, 97, 117, 100>>

\* i space sharp-s e-acute inverted-question o-acute hiragana-a CJK-zhong at-sign
Alphabet == {105, 32, 223, 233, 191, 243, 12354, 20013, 64}

RECURSIVE SeqsUpTo(_)
SeqsUpTo(n) ==
  IF n = 0 THEN {<<>>}
  ELSE LET shorter == SeqsUpTo(n - 1)
       IN shorter \cup {Append(t, c) : t \in {u \in shorter : Len(u) = n - 1}, c \in Alphabet}

\* u-umlaut, a letter of the German and of the French class
TextUmlaut == <<252>>

\* "gr\u00fcn ist es": one u-umlaut among 11 code units
TextGruenIstEs == <<103, 114, 252, 110, 32, 105, 115, 116, 32, 101, 115>>

NamedTexts ==
  {TextIn, TextHelloWorld, TextDerMann, TextComoEstas, TextBlank, TextCafeNoir,
   TextUmlaut, TextGruenIstEs}

Texts == NamedTexts \cup SeqsUpTo(MaxLen)

(***************************************************************************)
(* State.                                                                  *)
(***************************************************************************)
NumInv == 2
Inv == 1..NumInv

\* the clicks on the translate button that are followed
MaxClicks == 2
Handlers == 1..MaxClicks

\* the calls of wordbookService that are followed
MaxCalls == 3
Calls == 1..MaxCalls

\* TranslationResult: the two fields addWord reads (wordbook.ts lines 143, 165, 174)
TranslationResult(originalText, translation) ==
  [originalText |-> originalText, translation |-> translation]

\* WordbookEntry, lines 163-171, without its timestamps and tags
WordbookEntry(id, originalText, translation, viewCount) ==
  [id |-> id, originalText |-> originalText, translation |-> translation,
   viewCount |-> viewCount]

\* WordbookStorage, lines 58-67, without version and timestamps; NoData is the
\* undefined that chrome.storage.local.get yields for a key never written
WordbookStorage(words) == [present |-> TRUE, words |-> words]
NoData == [present |-> FALSE, words |-> <<>>]

IdleCall ==
  [op |-> "none", pc |-> "idle", word |-> TranslationResult(<<>>, <<>>), id |-> 0,
   ok |-> TRUE, data |-> NoData, ret |-> <<>>, after |-> {}]

VARIABLES
  fastTextModel,        \* "null" or "lidModel"
  fastTextLoading,      \* BOOLEAN
  fastTextLoadPromise,  \* 0 for null, else the id of a load promise
  fastTextAvailable,    \* "null", "true" or "false"
  promises,             \* state of the async body behind each load promise
  pkgInstalled,         \* whether import("fasttext.wasm.js") resolves
  workload,             \* who calls: "sequential" one caller, "concurrent" NumInv
                        \* callers, "deterministic", "app" or "wordbook"
  inv,                  \* the invocations of hybridLanguageDetect[Sync]
  loadCalls,            \* calls of lidModel.load()
  oracle,               \* what deterministic providers answer for oracle.text
  history               \* verdicts the caller has taken, by starting state

\* The content script: App.tsx and the useTranslation hook
VARIABLES
  selectedText,               \* useTextSelection: the trimmed selection, <<>> for none
  showPanel,                  \* App: whether the translation panel is shown
  currentTranslatingTextRef,  \* App: the text handleButtonClick last took
  result,                     \* useTranslation: the result shown, or NoTranslation
  isLoading,                  \* useTranslation
  error,                      \* useTranslation: whether an error message is shown
  currentRequestRef,          \* useTranslation: {text, requestId} or NoRequest
  now,                        \* Date.now() of the content script
  handlers                    \* the invocations of handleButtonClick

\* The background worker: services/wordbook.ts
VARIABLES
  storageArea,      \* chrome.storage.local under STORAGE_KEY
  DEFAULT_STORAGE,  \* the module-level object of that name
  calls             \* the invocations of the methods of wordbookService

memo == <<fastTextModel, fastTextLoading, fastTextLoadPromise, fastTextAvailable>>
page == <<selectedText, showPanel, currentTranslatingTextRef, result, isLoading,
          error, currentRequestRef, now, handlers>>
worker == <<storageArea, DEFAULT_STORAGE, calls>>
detector == <<memo, promises, pkgInstalled, workload, inv, loadCalls, oracle, history>>
vars == <<fastTextModel, fastTextLoading, fastTextLoadPromise, fastTextAvailable,
          promises, pkgInstalled, workload, inv, loadCalls, oracle, history,
          page, worker>>

IdleInv ==
  [pc |-> "idle", kind |-> "none", text |-> <<>>, available |-> FALSE, ret |-> "none",
   waitOn |-> 0, model |-> "null", fastTextResult |-> NoResult,
   ftOutcome |-> "none", charScanResult |-> NoResult, localConfidence |-> Rat(0, 1),
   llmAnswer |-> "none", llmResult |-> NoResult, result |-> NoResult,
   start |-> <<>>, log |-> <<>>]

\* identify() rejecting, as an answer of a deterministic provider
Thrown == [alpha2 |-> "throw", score |-> Rat(0, 1)]
NoOracle == [text |-> <<>>, identified |-> Thrown,
             answer |-> Answer("neterr", "none", "undefined", "none")]

\* The texts a caller may pass, the callers that exist and the answers the
\* providers may give.  Concurrent callers pass one text that no local stage
\* decides; deterministic providers answer oracle.text one way.
ConcTexts == {<<243>>}
DetTexts == {<<12354, 20013>>, <<243>>, TextHelloWorld}
Pool ==
  CASE workload = "sequential" -> Texts
    [] workload = "concurrent" -> ConcTexts
    [] OTHER -> {oracle.text}
Slots == IF workload = "concurrent" THEN Inv ELSE {1}

ConcIdentifyResults == {[alpha2 |-> "es", score |-> Rat(86, 100)]}
IdentifyPool ==
  CASE workload = "sequential" -> IdentifyResults
    [] workload \in {"concurrent", "app"} -> ConcIdentifyResults
    [] OTHER -> {oracle.identified} \ {Thrown}
IdentifyMayThrow == workload = "deterministic" => oracle.identified = Thrown

ConcLlmAnswers == {Answer("content", "valid", "de", "none")}
LlmPool ==
  CASE workload = "sequential" -> LlmAnswers
    [] workload \in {"concurrent", "app"} -> ConcLlmAnswers
    [] OTHER -> {oracle.answer}

InitMemo ==
  /\ fastTextModel = "null"
  /\ fastTextLoading = FALSE
  /\ fastTextLoadPromise = 0
  /\ fastTextAvailable = "null"
  /\ promises = [p \in 1..MaxLoads |-> "unused"]
  /\ pkgInstalled \in BOOLEAN
  /\ inv = [i \in Inv |-> IdleInv]
  /\ loadCalls = 0
  /\ history = {}

\* App.tsx lines 27-53 and 88, useTranslation.ts lines 37-47: nothing selected,
\* nothing shown, no click handled yet
NoTranslation == [originalText |-> <<>>, request |-> 0]
NoRequest == [text |-> <<>>, requestId |-> <<>>]
IdleHandler ==
  [pc |-> "idle", textToTranslate |-> <<>>, apiLang |-> "none", requestId |-> <<>>,
   stale |-> FALSE, superseded |-> FALSE]
InitPage ==
  /\ selectedText = <<>>
  /\ showPanel = FALSE
  /\ currentTranslatingTextRef = <<>>
  /\ result = NoTranslation
  /\ isLoading = FALSE
  /\ error = FALSE
  /\ currentRequestRef = NoRequest
  /\ now = 0
  /\ handlers = [h \in Handlers |-> IdleHandler]

\* wordbook.ts lines 77-82: the worker has loaded the module; the storage area
\* is one of stored
InitWorker(stored) ==
  /\ storageArea \in stored
  /\ DEFAULT_STORAGE = WordbookStorage(<<>>)
  /\ calls = [c \in Calls |-> IdleCall]

Init ==
  /\ InitMemo /\ workload = "sequential" /\ oracle = NoOracle
  /\ InitPage /\ InitWorker({NoData})

\* several invocations in flight at once
InitConc ==
  /\ InitMemo /\ workload = "concurrent" /\ oracle = NoOracle
  /\ InitPage /\ InitWorker({NoData})

\* one caller, one text, providers that answer it the same way every time
InitDet ==
  /\ InitMemo
  /\ workload = "deterministic"
  /\ oracle \in [text : DetTexts, identified : IdentifyResults \cup {Thrown},
                  answer : LlmAnswers]
  /\ InitPage /\ InitWorker({NoData})

(***************************************************************************)
(* checkFastTextAvailability, up to its first suspension: the flag is read *)
(* when it is set, else the dynamic import is started.                     *)
(***************************************************************************)
checkFastTextAvailability(r, caller) ==
  IF fastTextAvailable # "null"
    THEN [r EXCEPT !.available = (fastTextAvailable = "true"),
                   !.ret = caller, !.pc = caller]
    ELSE [r EXCEPT !.ret = caller, !.pc = "import"]

\* the memoized state an invocation starts from, kept where verdicts are compared
Start == IF workload = "deterministic" THEN memo ELSE <<>>

\* hybridLanguageDetect(text), lines 359-371, up to the first suspension
EmptyResult == Result("en", Rat(50, 100), "fallback", "empty")

\* the guard without trim(): only the empty string is caught
hybridLanguageDetect_NoTrim(i, text) ==
  /\ inv[i].pc = "idle"
  /\ IF Len(text) = 0
       THEN inv' = [inv EXCEPT ![i] =
              [IdleInv EXCEPT !.pc = "done", !.kind = "async", !.text = text,
                              !.start = Start,
                              !.result = EmptyResult, !.log = <<"return">>]]
       ELSE inv' = [inv EXCEPT ![i] =
              checkFastTextAvailability(
                [IdleInv EXCEPT !.kind = "async", !.text = text,
                                !.start = Start,
                                !.log = <<"ft_start">>], "dwf_avail")]
  /\ UNCHANGED <<memo, promises, pkgInstalled, workload, page, worker, loadCalls, oracle, history>>

\* the invocation at its first suspension, or returned for a blank text
Entered(text) ==
  IF Len(text) = 0 \/ TrimLength(text) = 0
    THEN [IdleInv EXCEPT !.pc = "done", !.kind = "async", !.text = text,
                         !.start = Start,
                         !.result = EmptyResult, !.log = <<"return">>]
    ELSE checkFastTextAvailability(
           [IdleInv EXCEPT !.kind = "async", !.text = text,
                           !.start = Start,
                           !.log = <<"ft_start">>], "dwf_avail")

hybridLanguageDetect(i, text) ==
  /\ inv[i].pc = "idle"
  /\ inv' = [inv EXCEPT ![i] = Entered(text)]
  /\ UNCHANGED <<memo, promises, pkgInstalled, workload, page, worker, loadCalls, oracle, history>>

\* checkFastTextAvailability, lines 64-79: the dynamic import settles
ImportSettles(i) ==
  /\ inv[i].pc = "import"
  /\ fastTextAvailable' = IF pkgInstalled THEN "true" ELSE "false"
  /\ inv' = [inv EXCEPT ![i].available = pkgInstalled, ![i].pc = inv[i].ret]
  /\ UNCHANGED <<fastTextModel, fastTextLoading, fastTextLoadPromise, promises,
                 pkgInstalled, workload, page, worker, loadCalls, oracle, history>>

\* detectWithFastText returns res to hybridLanguageDetect; how records why
FastTextDone(r, res, how) ==
  [r EXCEPT !.fastTextResult = res, !.ftOutcome = how, !.pc = "hyb_ft",
            !.log = Append(r.log, "ft_done")]

\* An exception that no catch block takes leaves the invocation rejected
Rejected(r) == [r EXCEPT !.pc = "rejected", !.log = Append(r.log, "throw")]

\* detectWithFastText, lines 136-143
DwfAfterCheck(i) ==
  /\ inv[i].pc = "dwf_avail"
  /\ IF ~inv[i].available
       THEN inv' = [inv EXCEPT ![i] = FastTextDone(inv[i], NoResult, "unavailable")]
       ELSE inv' = [inv EXCEPT ![i] = checkFastTextAvailability(inv[i], "init_avail")]
  /\ UNCHANGED <<memo, promises, pkgInstalled, workload, page, worker, loadCalls, oracle, history>>

FreePromises == {p \in 1..MaxLoads : promises[p] = "unused"}

\* the pending initialization is not joined: every caller starts its own
InitAfterCheck_NoJoin(i) ==
  /\ inv[i].pc = "init_avail"
  /\ IF ~inv[i].available
       THEN /\ inv' = [inv EXCEPT ![i].model = "null", ![i].pc = "dwf_model"]
            /\ UNCHANGED <<memo, promises>>
     ELSE IF fastTextModel # "null"
       THEN /\ inv' = [inv EXCEPT ![i].model = fastTextModel, ![i].pc = "dwf_model"]
            /\ UNCHANGED <<memo, promises>>
     ELSE /\ FreePromises # {}
          /\ LET p == CHOOSE q \in FreePromises : \A o \in FreePromises : q <= o
             IN /\ fastTextLoading' = TRUE
                /\ fastTextLoadPromise' = p
                /\ promises' = [promises EXCEPT ![p] = "importing"]
                /\ inv' = [inv EXCEPT ![i].waitOn = p, ![i].pc = "await_load"]
          /\ UNCHANGED <<fastTextModel, fastTextAvailable>>
  /\ UNCHANGED <<pkgInstalled, workload, page, worker, loadCalls, oracle, history>>

\* initFastText, lines 89-125, after checkFastTextAvailability has answered
InitAfterCheck(i) ==
  /\ inv[i].pc = "init_avail"
  /\ IF ~inv[i].available
       THEN /\ inv' = [inv EXCEPT ![i].model = "null", ![i].pc = "dwf_model"]
            /\ UNCHANGED <<memo, promises>>
     ELSE IF fastTextModel # "null"
       THEN /\ inv' = [inv EXCEPT ![i].model = fastTextModel, ![i].pc = "dwf_model"]
            /\ UNCHANGED <<memo, promises>>
     ELSE IF fastTextLoading /\ fastTextLoadPromise # 0
       THEN /\ inv' = [inv EXCEPT ![i].waitOn = fastTextLoadPromise,
                                  ![i].pc = "await_load"]
            /\ UNCHANGED <<memo, promises>>
     ELSE /\ FreePromises # {}
          /\ LET p == CHOOSE q \in FreePromises : \A o \in FreePromises : q <= o
             IN /\ fastTextLoading' = TRUE
                /\ fastTextLoadPromise' = p
                /\ promises' = [promises EXCEPT ![p] = "importing"]
                /\ inv' = [inv EXCEPT ![i].waitOn = p, ![i].pc = "await_load"]
          /\ UNCHANGED <<fastTextModel, fastTextAvailable>>
  /\ UNCHANGED <<pkgInstalled, workload, page, worker, loadCalls, oracle, history>>

\* initFastText, lines 109-112: import and getLIDModel() resolve, load() is called
LoaderCallsLoad(p) ==
  /\ promises[p] = "importing"
  /\ pkgInstalled
  /\ promises' = [promises EXCEPT ![p] = "loading"]
  /\ loadCalls' = loadCalls + 1
  /\ UNCHANGED <<memo, pkgInstalled, workload, page, worker, inv, oracle, history>>

\* initFastText, lines 113-115: load() resolves
LoaderSucceeds(p) ==
  /\ promises[p] = "loading"
  /\ fastTextModel' = "lidModel"
  /\ fastTextLoading' = FALSE
  /\ promises' = [promises EXCEPT ![p] = "lidModel"]
  /\ UNCHANGED <<fastTextLoadPromise, fastTextAvailable, pkgInstalled, workload, page, worker,
                 inv, loadCalls, oracle, history>>

\* the catch block without line 120: the adapter stays marked available
LoaderFails_NoMark(p) ==
  /\ promises[p] \in {"importing", "loading"}
  /\ fastTextLoading' = FALSE
  /\ fastTextLoadPromise' = 0
  /\ promises' = [promises EXCEPT ![p] = "null"]
  /\ UNCHANGED <<fastTextModel, fastTextAvailable, pkgInstalled, workload, page, worker, inv,
                 loadCalls, oracle, history>>

\* initFastText, lines 116-122: the import, getLIDModel() or load() rejects
LoaderFails(p) ==
  /\ promises[p] \in {"importing", "loading"}
  /\ fastTextLoading' = FALSE
  /\ fastTextLoadPromise' = 0
  /\ fastTextAvailable' = "false"
  /\ promises' = [promises EXCEPT ![p] = "null"]
  /\ UNCHANGED <<fastTextModel, pkgInstalled, workload, page, worker, inv, loadCalls,
                 oracle, history>>

\* detectWithFastText, line 143: the awaited load promise has settled
AwaitLoadResumes(i) ==
  /\ inv[i].pc = "await_load"
  /\ promises[inv[i].waitOn] \in {"lidModel", "null"}
  /\ inv' = [inv EXCEPT ![i].model = promises[inv[i].waitOn], ![i].pc = "dwf_model"]
  /\ UNCHANGED <<memo, promises, pkgInstalled, workload, page, worker, loadCalls, oracle, history>>

\* detectWithFastText, lines 146-151
DwfAfterInit(i) ==
  /\ inv[i].pc = "dwf_model"
  /\ IF inv[i].model = "null"
       THEN inv' = [inv EXCEPT ![i] = FastTextDone(inv[i], NoResult, "no_model")]
       ELSE inv' = [inv EXCEPT ![i].pc = "identify"]
  /\ UNCHANGED <<memo, promises, pkgInstalled, workload, page, worker, loadCalls, oracle, history>>

\* detectWithFastText, lines 153-172: identify() resolves
IdentifyResolves(i, identified) ==
  /\ inv[i].pc = "identify"
  /\ inv' = [inv EXCEPT ![i] =
       FastTextDone(inv[i], FastTextResult(identified), "identified")]
  /\ UNCHANGED <<memo, promises, pkgInstalled, workload, page, worker, loadCalls, oracle, history>>

\* the catch block missing: the exception leaves detectWithFastText
IdentifyThrows_Uncaught(i) ==
  /\ inv[i].pc = "identify"
  /\ inv' = [inv EXCEPT ![i] = Rejected(inv[i])]
  /\ UNCHANGED <<memo, promises, pkgInstalled, workload, page, worker, loadCalls, oracle, history>>

\* detectWithFastText, lines 173-177: identify() rejects, or resolves to a value
\* without properties; the catch block
IdentifyThrows(i) ==
  /\ inv[i].pc = "identify"
  /\ fastTextAvailable' = "false"
  /\ inv' = [inv EXCEPT ![i] = FastTextDone(inv[i], NoResult, "threw")]
  /\ UNCHANGED <<fastTextModel, fastTextLoading, fastTextLoadPromise, promises,
                 pkgInstalled, workload, page, worker, loadCalls, oracle, history>>

FallbackResult == Result("en", Rat(50, 100), "fallback", "all_failed")

Returned(r, res) == [r EXCEPT !.result = res, !.pc = "done", !.log = Append(r.log, "return")]

\* the remote call issued before the char scan
Arbitrate_RemoteFirst(r) ==
  IF ~IsNull(r.fastTextResult) /\ RatGT(r.fastTextResult.confidence, Rat(85, 100))
    THEN Returned(r, r.fastTextResult)
    ELSE [r EXCEPT !.pc = "llm", !.log = Append(r.log, "llm_start")]

\* the remote call gated at 0.6, the threshold the documentation names
Arbitrate_GateAt06(r) ==
  LET text == r.text
      fastTextResult == r.fastTextResult
      charScanResult == detectWithCharScan(text)
      localConfidence == calculateLocalConfidence(text, charScanResult)
      scanned == [r EXCEPT !.charScanResult = charScanResult,
                           !.log = Append(r.log, "charscan")]
      gated == [scanned EXCEPT !.localConfidence = localConfidence]
  IN
  IF ~IsNull(fastTextResult) /\ RatGT(fastTextResult.confidence, Rat(85, 100))
    THEN Returned(r, fastTextResult)
  ELSE IF ~IsNull(charScanResult) /\ RatGT(charScanResult.confidence, Rat(75, 100))
    THEN Returned(scanned, charScanResult)
  ELSE IF RatLT(localConfidence, Rat(60, 100))
    THEN [gated EXCEPT !.pc = "llm", !.log = Append(scanned.log, "llm_start")]
  ELSE IF ~IsNull(charScanResult) THEN Returned(gated, charScanResult)
  ELSE IF ~IsNull(fastTextResult) THEN Returned(gated, fastTextResult)
  ELSE Returned(gated, FallbackResult)

\* the last return without the default: whatever the statistical stage left
Arbitrate_NoDefault(r) ==
  LET text == r.text
      fastTextResult == r.fastTextResult
      charScanResult == detectWithCharScan(text)
      localConfidence == calculateLocalConfidence(text, charScanResult)
      scanned == [r EXCEPT !.charScanResult = charScanResult,
                           !.log = Append(r.log, "charscan")]
      gated == [scanned EXCEPT !.localConfidence = localConfidence]
  IN
  IF ~IsNull(fastTextResult) /\ RatGT(fastTextResult.confidence, Rat(85, 100))
    THEN Returned(r, fastTextResult)
  ELSE IF ~IsNull(charScanResult) /\ RatGT(charScanResult.confidence, Rat(75, 100))
    THEN Returned(scanned, charScanResult)
  ELSE IF RatLT(localConfidence, Rat(70, 100))
    THEN [gated EXCEPT !.pc = "llm", !.log = Append(scanned.log, "llm_start")]
  ELSE IF ~IsNull(charScanResult) THEN Returned(gated, charScanResult)
  ELSE Returned(gated, fastTextResult)

\* hybridLanguageDetect, lines 373-410: from the statistical result to the
\* return or to the remote call
Arbitrate(r) ==
  LET text == r.text
      fastTextResult == r.fastTextResult
      charScanResult == detectWithCharScan(text)
      localConfidence == calculateLocalConfidence(text, charScanResult)
      scanned == [r EXCEPT !.charScanResult = charScanResult,
                           !.log = Append(r.log, "charscan")]
      gated == [scanned EXCEPT !.localConfidence = localConfidence]
  IN
  IF ~IsNull(fastTextResult) /\ RatGT(fastTextResult.confidence, Rat(85, 100))
    THEN Returned(r, fastTextResult)
  ELSE IF ~IsNull(charScanResult) /\ RatGT(charScanResult.confidence, Rat(75, 100))
    THEN Returned(scanned, charScanResult)
  ELSE IF RatLT(localConfidence, Rat(70, 100))
    THEN [gated EXCEPT !.pc = "llm", !.log = Append(scanned.log, "llm_start")]
  ELSE IF ~IsNull(charScanResult) THEN Returned(gated, charScanResult)
  ELSE IF ~IsNull(fastTextResult) THEN Returned(gated, fastTextResult)
  ELSE Returned(gated, FallbackResult)

HybAfterFastText(i) ==
  /\ inv[i].pc = "hyb_ft"
  /\ inv' = [inv EXCEPT ![i] = Arbitrate(inv[i])]
  /\ UNCHANGED <<memo, promises, pkgInstalled, workload, page, worker, loadCalls, oracle, history>>

\* detectWithLLM, lines 320-327, and hybridLanguageDetect, line 391: the remote
\* call settles
LlmSettles(i, answer) ==
  /\ inv[i].pc = "llm"
  /\ inv' = [inv EXCEPT ![i] =
       Returned([inv[i] EXCEPT !.log = Append(inv[i].log, "llm_done"),
                               !.llmAnswer = answer.kind,
                               !.llmResult = detectWithLLM(inv[i].text, answer)],
                detectWithLLM(inv[i].text, answer))]
  /\ UNCHANGED <<memo, promises, pkgInstalled, workload, page, worker, loadCalls, oracle, history>>

\* hybridLanguageDetectSync(text), lines 421-435
CallSync(i, text) ==
  /\ inv[i].pc = "idle"
  /\ inv' = [inv EXCEPT ![i] =
       [IdleInv EXCEPT !.pc = "done", !.kind = "sync", !.text = text,
                       !.result = hybridLanguageDetectSync(text),
                       !.log = <<"charscan", "return">>]]
  /\ UNCHANGED <<memo, promises, pkgInstalled, workload, page, worker, loadCalls, oracle, history>>

\* what a caller learns from one invocation
Verdict(r) ==
  [start |-> r.start, language |-> r.result.language, method |-> r.result.method]

\* The caller has taken the result
Consume(i) ==
  /\ inv[i].pc = "done"
  /\ inv' = [inv EXCEPT ![i] = IdleInv]
  /\ history' = IF workload = "deterministic" /\ inv[i].kind = "async"
                  THEN history \cup {Verdict(inv[i])}
                  ELSE history
  /\ UNCHANGED <<memo, promises, pkgInstalled, workload, page, worker, loadCalls, oracle>>

Next ==
  \/ \E i \in Slots : \E text \in Pool : hybridLanguageDetect(i, text)
  \/ \E i \in Slots : \E text \in Pool : CallSync(i, text)
  \/ \E i \in Inv : ImportSettles(i)
  \/ \E i \in Inv : DwfAfterCheck(i)
  \/ \E i \in Inv : InitAfterCheck(i)
  \/ \E p \in 1..MaxLoads : LoaderCallsLoad(p)
  \/ \E p \in 1..MaxLoads : LoaderSucceeds(p)
  \/ \E p \in 1..MaxLoads : LoaderFails(p)
  \/ \E i \in Inv : AwaitLoadResumes(i)
  \/ \E i \in Inv : DwfAfterInit(i)
  \/ \E i \in Inv : \E identified \in IdentifyPool : IdentifyResolves(i, identified)
  \/ \E i \in Inv : IdentifyMayThrow /\ IdentifyThrows(i)
  \/ \E i \in Inv : HybAfterFastText(i)
  \/ \E i \in Inv : \E answer \in LlmPool : LlmSettles(i, answer)
  \/ \E i \in Inv : Consume(i)

Spec == Init /\ [][Next]_vars

SpecConc == InitConc /\ [][Next]_vars

SpecDet == InitDet /\ [][Next]_vars

\* Every continuation of the code runs once it is enabled, and the local
\* provider settles every import, load() and identify(); nothing makes the
\* remote endpoint answer.
LocalStep ==
  \/ \E i \in Inv : ImportSettles(i)
  \/ \E i \in Inv : DwfAfterCheck(i)
  \/ \E i \in Inv : InitAfterCheck(i)
  \/ \E p \in 1..MaxLoads : LoaderCallsLoad(p) \/ LoaderSucceeds(p) \/ LoaderFails(p)
  \/ \E i \in Inv : AwaitLoadResumes(i)
  \/ \E i \in Inv : DwfAfterInit(i)
  \/ \E i \in Inv : \E identified \in IdentifyPool : IdentifyResolves(i, identified)
  \/ \E i \in Inv : IdentifyMayThrow /\ IdentifyThrows(i)
  \/ \E i \in Inv : HybAfterFastText(i)

FairSpec == Init /\ [][Next]_vars /\ WF_vars(LocalStep)

(***************************************************************************)
(* wordbookService in the background worker (services/wordbook.ts).  The   *)
(* worker runs one callback at a time.  chrome.storage.local takes the get *)
(* and set calls in the order they are made, each one reading or writing   *)
(* the area when it is made, and answers each with a callback later.       *)
(* Timestamps and tags are left out: no method reads them back.            *)
(***************************************************************************)
\* what the callers pass: "A", "a" and "b" with a translation, "b" without
WordInputs ==
  {TranslationResult(<<65>>, <<49>>), TranslationResult(<<97>>, <<50>>),
   TranslationResult(<<98>>, <<49>>), TranslationResult(<<98>>, <<>>)}
\* the ids removeWord is called with: that of the stored word, that of the first call
Ids == {0, 1}

\* the area as an earlier session may have left it: never written, or one word "c"
StoredAtStart == {NoData, WordbookStorage(<<WordbookEntry(0, <<99>>, <<49>>, 1)>>)}

Settled(c) == calls[c].pc \in {"done", "rejected"}
NextCall(c) == calls[c].pc = "idle" /\ \A k \in 1..(c - 1) : calls[k].pc # "idle"

\* a method is entered; after records the calls that had settled by then
Begin(op) == [IdleCall EXCEPT !.op = op, !.after = {k \in Calls : Settled(k)}]

\* getWordbook, lines 93-96: chrome.storage.local.get is called and reads the
\* area
getWordbook(r) == [r EXCEPT !.pc = "get", !.data = storageArea]

\* line 105, data || DEFAULT_STORAGE: the object read, or the shared default
Shared(r) == ~r.data.present
Resolved(r) == IF Shared(r) THEN DEFAULT_STORAGE ELSE r.data

\* lines 98-101: the callback of get finds lastError set (readOk is FALSE), the
\* promise of getWordbook rejects and the method rejects with it; lines
\* 174-176: addWord throws
Reject(c) ==
  /\ calls' = [calls EXCEPT ![c].pc = "rejected"]
  /\ UNCHANGED <<storageArea, DEFAULT_STORAGE>>

\* the method has changed its storage object to storage and calls
\* saveWordbook, lines 115-121: chrome.storage.local.set copies the object and
\* writes it, or fails; a change of the shared default stays either way
saveWordbook(c, r, storage, ok) ==
  /\ storageArea' = IF ok THEN storage ELSE storageArea
  /\ DEFAULT_STORAGE' = IF Shared(r) THEN storage ELSE DEFAULT_STORAGE
  /\ calls' = [calls EXCEPT ![c] = [r EXCEPT !.pc = "set", !.ok = ok]]

\* saveWordbook, lines 121-127: the callback of set
SaveSettles(c) ==
  /\ calls[c].pc = "set"
  /\ calls' = [calls EXCEPT ![c].pc = IF calls[c].ok THEN "done" ELSE "rejected"]
  /\ UNCHANGED <<storageArea, DEFAULT_STORAGE, detector, page>>

\* addWord(translationResult), lines 137-139
addWord(c, translationResult) ==
  /\ NextCall(c)
  /\ calls' = [calls EXCEPT ![c] =
                getWordbook([Begin("addWord") EXCEPT !.word = translationResult])]
  /\ UNCHANGED <<storageArea, DEFAULT_STORAGE, detector, page>>

\* findIndex of lines 142-144: 0 stands for -1
FindIndex(words, originalText) ==
  LET matches == {k \in 1..Len(words) :
                    toLowerCase(words[k].originalText) = toLowerCase(originalText)}
  IN IF matches = {} THEN 0 ELSE CHOOSE k \in matches : \A j \in matches : k <= j

\* lines 163-179: the new entry, its id taken as the number of the call, in
\* front of the words
addWord_Unshift(c, translationResult, words) ==
  <<WordbookEntry(c,
      IF translationResult.originalText # <<>>
        THEN translationResult.originalText
        ELSE translationResult.translation,
      translationResult.translation, 1)>> \o words

\* addWord, lines 139-185, from the callback of get to the call of set
AddWordAfterGet(c) ==
  /\ calls[c].op = "addWord"
  /\ calls[c].pc = "get"
  /\ LET r == calls[c]
         translationResult == r.word
         storage == Resolved(r)
         existingIndex == FindIndex(storage.words, translationResult.originalText)
         existing == [storage.words[existingIndex] EXCEPT
                        !.viewCount = @ + 1,
                        !.originalText = translationResult.originalText,
                        !.translation = translationResult.translation]
         added == addWord_Unshift(c, translationResult, storage.words)
     IN
     \E readOk \in BOOLEAN :
     IF ~readOk THEN Reject(c)
     ELSE IF existingIndex # 0
       THEN \E ok \in BOOLEAN :
              saveWordbook(c, [r EXCEPT !.ret = <<existing>>],
                           WordbookStorage([storage.words EXCEPT ![existingIndex] = existing]),
                           ok)
     ELSE IF added[1].originalText = <<>> \/ added[1].translation = <<>>
       THEN Reject(c)
     ELSE \E ok \in BOOLEAN :
            saveWordbook(c, [r EXCEPT !.ret = <<added[1]>>], WordbookStorage(added), ok)
  /\ UNCHANGED <<detector, page>>

\* removeWord(id), lines 192-193
removeWord(c, id) ==
  /\ NextCall(c)
  /\ calls' = [calls EXCEPT ![c] = getWordbook([Begin("removeWord") EXCEPT !.id = id])]
  /\ UNCHANGED <<storageArea, DEFAULT_STORAGE, detector, page>>

\* removeWord, lines 193-199, from the callback of get to the call of set
RemoveWordAfterGet(c) ==
  /\ calls[c].op = "removeWord"
  /\ calls[c].pc = "get"
  /\ LET r == calls[c]
         Keep(word) == word.id # r.id
     IN \E readOk \in BOOLEAN :
          IF ~readOk THEN Reject(c)
          ELSE \E ok \in BOOLEAN :
                 saveWordbook(c, r, WordbookStorage(SelectSeq(Resolved(r).words, Keep)), ok)
  /\ UNCHANGED <<detector, page>>

\* getAllWords(), lines 222-223
getAllWords(c) ==
  /\ NextCall(c)
  /\ calls' = [calls EXCEPT ![c] = getWordbook(Begin("getAllWords"))]
  /\ UNCHANGED <<storageArea, DEFAULT_STORAGE, detector, page>>

\* getAllWords, lines 223-224: the callback of get
GetAllWordsAfterGet(c) ==
  /\ calls[c].op = "getAllWords"
  /\ calls[c].pc = "get"
  /\ \E readOk \in BOOLEAN :
       calls' = [calls EXCEPT ![c] =
         IF readOk
           THEN [calls[c] EXCEPT !.pc = "done", !.ret = Resolved(calls[c]).words]
           ELSE [calls[c] EXCEPT !.pc = "rejected"]]
  /\ UNCHANGED <<storageArea, DEFAULT_STORAGE, detector, page>>

\* clearAll(), lines 267-269, with saveWordbook up to the call of set
clearAll(c) ==
  /\ NextCall(c)
  /\ \E ok \in BOOLEAN :
       /\ storageArea' = IF ok THEN DEFAULT_STORAGE ELSE storageArea
       /\ calls' = [calls EXCEPT ![c] = [Begin("clearAll") EXCEPT !.pc = "set", !.ok = ok]]
  /\ UNCHANGED <<DEFAULT_STORAGE, detector, page>>

InitWordbook ==
  /\ InitMemo /\ pkgInstalled = FALSE /\ workload = "wordbook" /\ oracle = NoOracle
  /\ InitPage /\ InitWorker(StoredAtStart)

NextWordbook ==
  \/ \E c \in Calls : \E translationResult \in WordInputs : addWord(c, translationResult)
  \/ \E c \in Calls : AddWordAfterGet(c)
  \/ \E c \in Calls : \E id \in Ids : removeWord(c, id)
  \/ \E c \in Calls : RemoveWordAfterGet(c)
  \/ \E c \in Calls : getAllWords(c)
  \/ \E c \in Calls : GetAllWordsAfterGet(c)
  \/ \E c \in Calls : clearAll(c)
  \/ \E c \in Calls : SaveSettles(c)

SpecWordbook == InitWordbook /\ [][NextWordbook]_vars

(***************************************************************************)
(* The content script: App.tsx with the useTranslation hook.  State is     *)
(* taken as set when the setter is called; the effect of lines 145-151     *)
(* runs with the change of selectedText or showPanel that triggers it.     *)
(* The invocation h of handleButtonClick awaits the invocation h of        *)
(* hybridLanguageDetect.                                                   *)
(***************************************************************************)
\* ticks of Date.now() that are followed
MaxClock == 1

\* what useTextSelection can deliver (lines 272-317): trimmed, 2 to 500 code
\* units; "in" and a text that no local stage decides
AppTexts == {TextIn, <<243, 243>>}

\* chrome.runtime.sendMessage of lines 83-103: the worker answers with success,
\* answers with an error, answers nothing, or the call rejects
Outcomes == {"success", "failure", "none", "rejected"}

\* handleButtonClick has returned
Finished(r) == [IdleHandler EXCEPT !.pc = "done", !.stale = r.stale]

NextHandler(h) ==
  handlers[h].pc = "idle" /\ \A k \in 1..(h - 1) : handlers[k].pc # "idle"

\* a request in flight is superseded by the call of clear() or translate()
Supersede(hs) ==
  [h \in Handlers |->
     IF hs[h].pc = "translate" THEN [hs[h] EXCEPT !.superseded = TRUE] ELSE hs[h]]

\* useTranslation.clear, lines 184-189
clear ==
  /\ result' = NoTranslation
  /\ error' = FALSE
  /\ isLoading' = FALSE
  /\ currentRequestRef' = NoRequest

\* useTextSelection sets selectedText (lines 265-317, 349, 387, 433); then the
\* effect of App lines 145-151.  A detection in flight becomes stale when
\* another text is selected.
SelectText(text) ==
  /\ text # selectedText
  /\ selectedText' = text
  /\ LET marked == [h \in Handlers |->
                      IF /\ handlers[h].pc = "detect"
                         /\ text # <<>> /\ handlers[h].textToTranslate # text
                        THEN [handlers[h] EXCEPT !.stale = TRUE]
                        ELSE handlers[h]]
     IN IF showPanel /\ text # currentTranslatingTextRef
          THEN /\ clear
               /\ currentTranslatingTextRef' = <<>>
               /\ handlers' = Supersede(marked)
          ELSE /\ handlers' = marked
               /\ UNCHANGED <<result, error, isLoading, currentRequestRef,
                              currentTranslatingTextRef>>
  /\ UNCHANGED <<showPanel, now, detector, worker>>

\* handleButtonClick, lines 91-117, up to the await; the button is there when
\* text is selected and the panel is not shown (line 200)
handleButtonClick(h) ==
  /\ NextHandler(h)
  /\ ~showPanel
  /\ Len(selectedText) # 0 /\ TrimLength(selectedText) # 0
  /\ currentTranslatingTextRef' = selectedText
  /\ showPanel' = TRUE
  /\ clear
  /\ handlers' = [Supersede(handlers) EXCEPT
                    ![h] = [IdleHandler EXCEPT !.pc = "detect",
                                               !.textToTranslate = selectedText]]
  /\ inv[h].pc = "idle"
  /\ inv' = [inv EXCEPT ![h] = Entered(selectedText)]
  /\ UNCHANGED <<selectedText, now, memo, promises, pkgInstalled, workload, loadCalls,
                 oracle, history, worker>>

\* handleButtonClick, lines 117-134, and translate, lines 55-83: the detection
\* has resolved, translate is called and sends its message; when chrome.runtime
\* is gone (alive is FALSE) it throws instead, and lines 141-178 and 138-141
\* follow at once
DetectionResolves(h) ==
  /\ handlers[h].pc = "detect"
  /\ inv[h].pc = "done"
  /\ inv' = [inv EXCEPT ![h] = IdleInv]
  /\ LET text == handlers[h].textToTranslate
         detectedLang == inv[h].result.language
         apiLang == IF detectedLang = "zh" THEN "en" ELSE detectedLang
         requestId == <<Trim(text), now>>
         called == [Supersede(handlers)[h] EXCEPT !.apiLang = apiLang,
                                                  !.requestId = requestId]
     IN \E alive \in BOOLEAN :
          /\ currentRequestRef' = [text |-> text, requestId |-> requestId]
          /\ result' = NoTranslation
          /\ error' = ~alive
          /\ isLoading' = alive
          /\ handlers' = [Supersede(handlers) EXCEPT
                            ![h] = IF alive THEN [called EXCEPT !.pc = "translate"]
                                            ELSE Finished(called)]
  /\ UNCHANGED <<selectedText, showPanel, currentTranslatingTextRef, now, memo, promises,
                 pkgInstalled, workload, loadCalls, oracle, history, worker>>

\* lines 107-109 and 143-145; lines 174-175 test the opposite
Cancelled(h) ==
  \/ currentRequestRef = NoRequest
  \/ currentRequestRef.text # Trim(handlers[h].textToTranslate)
  \/ currentRequestRef.requestId # handlers[h].requestId

\* translate, lines 83-178, and handleButtonClick, lines 134-142: the message
\* is answered or the call rejects
ResponseArrives(h, outcome) ==
  /\ handlers[h].pc = "translate"
  /\ handlers' = [handlers EXCEPT ![h] = Finished(handlers[h])]
  /\ IF Cancelled(h)
       THEN UNCHANGED <<result, error, isLoading>>
       ELSE /\ result' = IF outcome = "success"
                           THEN [originalText |-> Trim(handlers[h].textToTranslate),
                                 request |-> h]
                           ELSE result
            /\ error' = IF outcome = "success" THEN error ELSE TRUE
            /\ isLoading' = FALSE
  /\ UNCHANGED <<selectedText, showPanel, currentTranslatingTextRef, currentRequestRef,
                 now, detector, worker>>

\* handlePanelClose, lines 154-160
handlePanelClose ==
  /\ showPanel
  /\ showPanel' = FALSE
  /\ clear
  /\ handlers' = Supersede(handlers)
  /\ UNCHANGED <<selectedText, currentTranslatingTextRef, now, detector, worker>>

\* a millisecond passes
Tick ==
  /\ now < MaxClock
  /\ now' = now + 1
  /\ UNCHANGED <<selectedText, showPanel, currentTranslatingTextRef, result, isLoading,
                 error, currentRequestRef, handlers, detector, worker>>

InitApp ==
  /\ InitMemo /\ workload = "app" /\ oracle = NoOracle
  /\ InitPage /\ InitWorker({NoData})

NextApp ==
  \/ \E text \in AppTexts \cup {<<>>} : SelectText(text)
  \/ \E h \in Handlers : handleButtonClick(h)
  \/ \E h \in Handlers : DetectionResolves(h)
  \/ \E h \in Handlers : \E outcome \in Outcomes : ResponseArrives(h, outcome)
  \/ handlePanelClose
  \/ Tick
  \/ \E i \in Inv : ImportSettles(i)
  \/ \E i \in Inv : DwfAfterCheck(i)
  \/ \E i \in Inv : InitAfterCheck(i)
  \/ \E p \in 1..MaxLoads : LoaderCallsLoad(p)
  \/ \E p \in 1..MaxLoads : LoaderSucceeds(p)
  \/ \E p \in 1..MaxLoads : LoaderFails(p)
  \/ \E i \in Inv : AwaitLoadResumes(i)
  \/ \E i \in Inv : DwfAfterInit(i)
  \/ \E i \in Inv : \E identified \in IdentifyPool : IdentifyResolves(i, identified)
  \/ \E i \in Inv : IdentifyThrows(i)
  \/ \E i \in Inv : HybAfterFastText(i)
  \/ \E i \in Inv : \E answer \in LlmPool : LlmSettles(i, answer)

SpecApp == InitApp /\ [][NextApp]_vars

(***************************************************************************)
(* Properties.                                                             *)
(***************************************************************************)
Methods == {"fasttext", "charscan", "llm", "fallback"}
IsDetectionResult(r) ==
  /\ r.language \in SupportedLanguages
  /\ r.method \in Methods
  /\ r.confidence.d > 0

\* Hiragana and Katakana blocks, CJK ideographs U+4E00..U+9FA5
HasKana(text) == \E k \in 1..Len(text) : text[k] \in 12352..12543
HasCJK(text) == \E k \in 1..Len(text) : text[k] \in 19968..40869

DoneAsync(i) == inv[i].pc = "done" /\ inv[i].kind = "async"
DoneSync(i) == inv[i].pc = "done" /\ inv[i].kind = "sync"
InLog(i, event) == \E k \in 1..Len(inv[i].log) : inv[i].log[k] = event
SameVerdict(a, b) ==
  /\ a.language = b.language
  /\ RatEQ(a.confidence, b.confidence)
  /\ a.method = b.method

\* C1: hybridLanguageDetect never rejects: no invocation ever ends in an
\* uncaught exception, whatever the FastText provider and the remote call do,
\* and every settled invocation holds a DetectionResult.
C1_NeverRejects ==
  \A i \in Inv :
    /\ inv[i].pc # "rejected"
    /\ inv[i].pc = "done" => IsDetectionResult(inv[i].result)

\* identify() threw and the remote call failed in the network, and the
\* invocation has resolved
C1_Witness ==
  \E i \in Inv :
    /\ DoneAsync(i)
    /\ inv[i].ftOutcome = "threw"
    /\ inv[i].llmAnswer = "neterr"
    /\ IsDetectionResult(inv[i].result)

\* C2: within one invocation the stages run in the order FastText, char scan,
\* LLM: the events of an invocation are a prefix of that order, the remote call
\* is pending only when both earlier stages have settled without a result
\* that is returned, it is not issued while the FastText stage is pending, and
\* an invocation that returned from an earlier stage has issued no remote call.
StageOrder == <<"ft_start", "ft_done", "charscan", "llm_start", "llm_done">>
StageEvents(i) ==
  LET log == inv[i].log
  IN IF Len(log) > 0 /\ log[Len(log)] = "return"
       THEN SubSeq(log, 1, Len(log) - 1) ELSE log

C2_StageOrder ==
  \A i \in Inv : inv[i].kind = "async" =>
    LET events == StageEvents(i)
    IN /\ Len(events) <= Len(StageOrder)
       /\ events = SubSeq(StageOrder, 1, Len(events))
       /\ inv[i].pc = "llm" <=> Len(events) = 4
       /\ inv[i].pc \in {"import", "dwf_avail", "init_avail", "await_load",
                         "dwf_model", "identify"} => events = <<"ft_start">>
       /\ InLog(i, "llm_start") =>
            /\ ~(/\ ~IsNull(inv[i].fastTextResult)
                 /\ RatGT(inv[i].fastTextResult.confidence, Rat(85, 100)))
            /\ ~(/\ ~IsNull(inv[i].charScanResult)
                 /\ RatGT(inv[i].charScanResult.confidence, Rat(75, 100)))
       /\ (inv[i].pc = "done" /\ inv[i].result.method \in {"fasttext", "charscan"})
            => ~InLog(i, "llm_start")

\* the remote call of an invocation is pending, after identify() answered
C2_Witness ==
  \E i \in Inv :
    /\ inv[i].pc = "llm"
    /\ inv[i].ftOutcome = "identified"
    /\ inv[i].log = <<"ft_start", "ft_done", "charscan", "llm_start">>

\* C3: hybridLanguageDetectSync returns 'ja' for every text with at least one
\* kana character, also when the text holds CJK ideographs.
C3_SyncKanaIsJapanese ==
  \A i \in Inv :
    (DoneSync(i) /\ HasKana(inv[i].text)) => inv[i].result.language = "ja"

C3_Witness ==
  \E i \in Inv :
    /\ DoneSync(i)
    /\ HasKana(inv[i].text)
    /\ HasCJK(inv[i].text)
    /\ inv[i].result.language = "ja"

\* C4 as claimed: hybridLanguageDetect returns 'ja' for every text with a kana
\* character, whatever the FastText model reports.
C4_Original ==
  \A i \in Inv :
    (DoneAsync(i) /\ HasKana(inv[i].text)) => inv[i].result.language = "ja"

\* C4 amended: for a text with a kana character hybridLanguageDetect returns
\* 'ja' from the char scan whenever the FastText stage yields no result, and
\* returns the FastText result unchanged when that stage yields one.
C4_KanaUnlessFastText ==
  \A i \in Inv :
    (DoneAsync(i) /\ HasKana(inv[i].text)) =>
      IF IsNull(inv[i].fastTextResult)
        THEN inv[i].result.language = "ja" /\ inv[i].result.method = "charscan"
        ELSE inv[i].result = inv[i].fastTextResult

\* the model answered for a kana text, below the threshold, and 'ja' came out
C4_Witness ==
  \E i \in Inv :
    /\ DoneAsync(i)
    /\ HasKana(inv[i].text)
    /\ inv[i].ftOutcome = "identified"
    /\ IsNull(inv[i].fastTextResult)
    /\ inv[i].result.language = "ja"

\* C5 as claimed: a text with CJK ideographs and no kana gives 'zh', from
\* hybridLanguageDetect and from hybridLanguageDetectSync.
C5_Original ==
  \A i \in Inv :
    (inv[i].pc = "done" /\ HasCJK(inv[i].text) /\ ~HasKana(inv[i].text))
      => inv[i].result.language = "zh"

\* C5 amended: for a text with CJK ideographs and no kana,
\* hybridLanguageDetectSync returns 'zh', and hybridLanguageDetect returns 'zh'
\* from the char scan whenever the FastText stage yields no result, and the
\* FastText result unchanged when that stage yields one.
C5_HanziUnlessFastText ==
  \A i \in Inv :
    (inv[i].pc = "done" /\ HasCJK(inv[i].text) /\ ~HasKana(inv[i].text)) =>
      IF inv[i].kind = "sync" \/ IsNull(inv[i].fastTextResult)
        THEN inv[i].result.language = "zh" /\ inv[i].result.method = "charscan"
        ELSE inv[i].result = inv[i].fastTextResult

C5_Witness ==
  \E i \in Inv :
    /\ DoneAsync(i)
    /\ HasCJK(inv[i].text) /\ ~HasKana(inv[i].text)
    /\ inv[i].ftOutcome = "threw"
    /\ inv[i].result.language = "zh"

\* C6 as claimed: for "in", when the FastText stage gives no answer, the local
\* confidence is computed, is below 0.7, and the remote stage is invoked and
\* produces the result.
C6_ShortTextUsesRemote ==
  \A i \in Inv :
    (DoneAsync(i) /\ inv[i].text = TextIn /\ IsNull(inv[i].fastTextResult)) =>
      /\ InLog(i, "llm_start")
      /\ RatLT(inv[i].localConfidence, Rat(70, 100))
      /\ inv[i].result.method \in {"llm", "fallback"}

\* C7 as claimed: "¿Cómo estás?" gives 'es' with confidence >= 0.75 in every
\* state of the FastText stage and of the remote stage.
C7_Original ==
  \A i \in Inv :
    (DoneAsync(i) /\ inv[i].text = TextComoEstas) =>
      /\ inv[i].result.language = "es"
      /\ RatGE(inv[i].result.confidence, Rat(75, 100))

\* C7 amended: for "¿Cómo estás?" hybridLanguageDetect returns 'es' with
\* confidence >= 0.75 from the char scan, without a remote call, whenever the
\* FastText stage yields no result, and returns the FastText result unchanged
\* when that stage yields one.
C7_SpanishUnlessFastText ==
  \A i \in Inv :
    (DoneAsync(i) /\ inv[i].text = TextComoEstas) =>
      IF IsNull(inv[i].fastTextResult)
        THEN /\ inv[i].result.language = "es"
             /\ RatGE(inv[i].result.confidence, Rat(75, 100))
             /\ inv[i].result.method = "charscan"
             /\ ~InLog(i, "llm_start")
        ELSE inv[i].result = inv[i].fastTextResult

C7_Witness ==
  \E i \in Inv :
    /\ DoneAsync(i)
    /\ inv[i].text = TextComoEstas
    /\ inv[i].ftOutcome = "unavailable"
    /\ inv[i].result.language = "es"
    /\ RatGE(inv[i].result.confidence, Rat(75, 100))

\* C8 as claimed: "Der Mann ist groß" gives 'de' with confidence >= 0.75 from
\* hybridLanguageDetect and from hybridLanguageDetectSync.
C8_Original ==
  \A i \in Inv :
    (inv[i].pc = "done" /\ inv[i].text = TextDerMann) =>
      /\ inv[i].result.language = "de"
      /\ RatGE(inv[i].result.confidence, Rat(75, 100))

\* C8 amended: for "Der Mann ist groß" hybridLanguageDetectSync returns 'de'
\* with confidence >= 0.75, and hybridLanguageDetect does so whenever the
\* FastText stage yields no result, and returns the FastText result unchanged
\* when that stage yields one.
C8_GermanUnlessFastText ==
  \A i \in Inv :
    (inv[i].pc = "done" /\ inv[i].text = TextDerMann) =>
      IF inv[i].kind = "sync" \/ IsNull(inv[i].fastTextResult)
        THEN /\ inv[i].result.language = "de"
             /\ RatGE(inv[i].result.confidence, Rat(75, 100))
             /\ inv[i].result.method = "charscan"
        ELSE inv[i].result = inv[i].fastTextResult

C8_Witness ==
  \E i \in Inv :
    /\ DoneSync(i)
    /\ inv[i].text = TextDerMann
    /\ inv[i].result.language = "de"
    /\ RatEQ(inv[i].result.confidence, Rat(1295, 1700))

\* C9 as claimed: "Hello world" gives 'en' with confidence >= 0.7 and method
\* 'charscan' or 'fasttext'.
C9_Original ==
  \A i \in Inv :
    (DoneAsync(i) /\ inv[i].text = TextHelloWorld) =>
      /\ inv[i].result.language = "en"
      /\ RatGE(inv[i].result.confidence, Rat(70, 100))
      /\ inv[i].result.method \in {"charscan", "fasttext"}

\* C9 amended: for "Hello world" hybridLanguageDetect returns a result with
\* confidence >= 0.7 and method 'charscan' or 'fasttext', never 'llm' or
\* 'fallback'; the result is {'en', 0.8, 'charscan'} whenever the FastText stage
\* yields no result, and the FastText result unchanged when that stage yields
\* one.
C9_EnglishUnlessFastText ==
  \A i \in Inv :
    (DoneAsync(i) /\ inv[i].text = TextHelloWorld) =>
      /\ RatGE(inv[i].result.confidence, Rat(70, 100))
      /\ inv[i].result.method \in {"charscan", "fasttext"}
      /\ IF IsNull(inv[i].fastTextResult)
           THEN SameVerdict(inv[i].result,
                            Result("en", Rat(80, 100), "charscan", "filter"))
           ELSE inv[i].result = inv[i].fastTextResult

C9_Witness ==
  \E i \in Inv :
    /\ DoneAsync(i)
    /\ inv[i].text = TextHelloWorld
    /\ inv[i].ftOutcome = "no_model"
    /\ inv[i].result.language = "en"
    /\ inv[i].result.method = "charscan"

\* C10: a call of hybridLanguageDetect with the empty string or a
\* whitespace-only string resolves in the call step itself to {'en', 0.5,
\* 'fallback'}: no stage is run, no provider is called and the memoized model
\* state is unchanged.
C10_EmptyInput ==
  [][\A i \in Inv :
       (/\ inv[i].pc = "idle"
        /\ inv'[i].kind = "async"
        /\ TrimLength(inv'[i].text) = 0) =>
         /\ inv'[i].pc = "done"
         /\ SameVerdict(inv'[i].result,
                        Result("en", Rat(50, 100), "fallback", "empty"))
         /\ inv'[i].log = <<"return">>
         /\ memo' = memo
         /\ promises' = promises
         /\ loadCalls' = loadCalls]_vars

\* a whitespace-only text has been answered, with the model loaded before
C10_Witness ==
  \E i \in Inv :
    /\ DoneAsync(i)
    /\ inv[i].text = TextBlank
    /\ inv[i].result.method = "fallback"
    /\ fastTextModel = "lidModel"

(***************************************************************************)
(* The model initialization under failure and under concurrent callers.    *)
(***************************************************************************)
Pending(p) == promises[p] \in {"importing", "loading"}
LoadSucceeded == \E p \in 1..MaxLoads : promises[p] = "lidModel"

\* C11: as long as no load() has succeeded, load() has been called at most
\* once, whatever the number of invocations, and every invocation that has
\* resolved did so through the heuristic or the remote stage (or with the
\* default), never with a statistical result.
C11_LoadRejectsOnce ==
  ~LoadSucceeded =>
    /\ loadCalls <= 1
    /\ \A i \in Inv : DoneAsync(i) => inv[i].result.method \in {"charscan", "llm", "fallback"}

\* C12: at most one initialization is pending at any time and it is the one
\* the module holds in fastTextLoadPromise, so that every invocation waiting
\* for a pending initialization waits for that one; the model is loaded at
\* most once, and no initialization is pending once it is loaded.
C12_SingleInitialization ==
  /\ Cardinality({p \in 1..MaxLoads : Pending(p)}) <= 1
  /\ Cardinality({p \in 1..MaxLoads : promises[p] = "lidModel"}) <= 1
  /\ \A p \in 1..MaxLoads : Pending(p) => fastTextLoading /\ fastTextLoadPromise = p
  /\ \A i \in Inv :
       (inv[i].pc = "await_load" /\ Pending(inv[i].waitOn)) =>
         inv[i].waitOn = fastTextLoadPromise
  /\ LoadSucceeded => \A p \in 1..MaxLoads : ~Pending(p)

\* two invocations wait for the same pending initialization, load() called once
C12_Witness ==
  /\ \A i \in Inv : inv[i].pc = "await_load" /\ inv[i].waitOn = fastTextLoadPromise
  /\ promises[fastTextLoadPromise] = "loading"
  /\ loadCalls = 1

\* C20: once the availability flag is false it stays false: no step of any
\* invocation, the settling of a pending availability probe included, marks
\* the adapter available again.
C20_UnavailableIsFinal ==
  [][fastTextAvailable = "false" => fastTextAvailable' = "false"]_vars

\* C13: with providers that answer a text the same way every time, two
\* invocations with that text that started from the same memoized model
\* state have returned the same language and the same method.
C13_SameStartSameVerdict ==
  /\ \A a, b \in history : a.start = b.start => a = b
  /\ \A i \in Inv : \A a \in history :
       (DoneAsync(i) /\ a.start = inv[i].start) => a = Verdict(inv[i])

\* a second invocation from the same state has resolved through the remote stage
C13_Witness ==
  \E i \in Inv :
    /\ DoneAsync(i)
    /\ Verdict(inv[i]) \in history
    /\ inv[i].result.method = "llm"

\* C14: a call of hybridLanguageDetectSync resolves in the call step itself
\* after the char scan alone, with the memoized model state, the load
\* promises and the count of load() calls unchanged; its result is {'en',
\* 0.5, 'fallback'} exactly when the heuristic abstains, and the result of
\* the heuristic otherwise.
C14_SyncOnlyCharScan ==
  [][\A i \in Inv :
       (inv[i].pc = "idle" /\ inv'[i].kind = "sync") =>
         LET text == inv'[i].text
             res == inv'[i].result
         IN /\ inv'[i].pc = "done"
            /\ inv'[i].log = <<"charscan", "return">>
            /\ memo' = memo
            /\ promises' = promises
            /\ loadCalls' = loadCalls
            /\ SameVerdict(res, Result("en", Rat(50, 100), "fallback", "sync_default"))
                 <=> IsNull(detectWithCharScan(text))
            /\ ~IsNull(detectWithCharScan(text)) => res = detectWithCharScan(text)]_vars

\* the sync function has answered the default for a text the heuristic does
\* not decide, the model being loaded
C14_Witness ==
  /\ fastTextModel = "lidModel"
  /\ \E i \in Inv :
       /\ DoneSync(i)
       /\ inv[i].text = <<233, 223>>
       /\ inv[i].result.method = "fallback"

\* C15: the confidence of every returned DetectionResult lies in [0,1].
C15_ConfidenceInUnitInterval ==
  \A i \in Inv :
    inv[i].pc = "done" =>
      /\ RatGE(inv[i].result.confidence, Rat(0, 1))
      /\ RatGE(Rat(1, 1), inv[i].result.confidence)

\* C16: every invocation that has resolved carries a language of the fixed
\* set, and no invocation has ended without a result.
C16_LanguageInFixedSet ==
  \A i \in Inv :
    /\ inv[i].pc # "rejected"
    /\ inv[i].pc = "done" =>
         /\ ~IsNull(inv[i].result)
         /\ inv[i].result.language \in SupportedLanguages

\* the answer of the model was dropped and the remote answer could not be read
C16_Witness ==
  \E i \in Inv :
    /\ DoneAsync(i)
    /\ inv[i].ftOutcome = "identified"
    /\ IsNull(inv[i].fastTextResult)
    /\ inv[i].llmAnswer = "badjson"
    /\ inv[i].result.language = "en"

\* C17: an invocation that waits for the remote call eventually resolves.
C17_RemoteCallSettles ==
  \A i \in Inv : (inv[i].pc = "llm") ~> (inv[i].pc = "done")

\* the two local stages have run and neither has decided
LocalStagesDeclined(i) ==
  /\ inv[i].kind = "async"
  /\ inv[i].pc \in {"llm", "done"}
  /\ InLog(i, "charscan")
  /\ IsNull(inv[i].fastTextResult) \/ ~RatGT(inv[i].fastTextResult.confidence, Rat(85, 100))
  /\ IsNull(inv[i].charScanResult) \/ ~RatGT(inv[i].charScanResult.confidence, Rat(75, 100))

C19_RemoteFailureDefaults ==
  \A i \in Inv :
    (DoneAsync(i) /\ inv[i].llmAnswer \in {"neterr", "nonok"}) =>
      /\ SameVerdict(inv[i].llmResult, Result("en", Rat(50, 100), "fallback", "llm_failed"))
      /\ inv[i].llmResult.reasoning = "llm_failed"

(***************************************************************************)
(* The statistical stage.                                                  *)
(***************************************************************************)
\* C21: an invocation that starts while a record of identify() having thrown
\* exists reads the adapter as unavailable, so that it never reaches
\* identify(); the invocation in which identify() threw holds a null
\* statistical result and goes on to the heuristic stage.
C21_ThrowMarksUnavailable ==
  [][\A i \in Inv :
       (/\ inv[i].pc = "idle"
        /\ inv'[i].kind = "async"
        /\ inv'[i].pc # "done"
        /\ \E j \in Inv : inv[j].ftOutcome = "threw") =>
         /\ inv'[i].pc = "dwf_avail"
         /\ ~inv'[i].available]_vars

\* the tags and scores for which the statistical stage is to answer
Accepted(identified) ==
  /\ identified.score.n * 100 > 85 * identified.score.d
  /\ identified.alpha2 \in {"en", "de", "fr", "ja", "es", "zh", "ZH-TW"}

NetworkFailure == Answer("neterr", "none", "undefined", "none")

\* the body is not JSON; the content holds no JSON object, or one that
\* JSON.parse rejects, and no "language:" line
MalformedAnswers ==
  {Answer("badjson", "none", "undefined", "none"),
   Answer("content", "invalid", "undefined", "none"),
   Answer("content", "none", "undefined", "none")}

\* the code read from the answer is not one of en, de, fr, ja, es
UnacceptedAnswers ==
  {Answer("content", "valid", "zh", "none"),
   Answer("content", "none", "undefined", "ko")}

\* C23: for the text of every invocation the remote stage has answered, a
\* malformed response and a network failure give the same language,
\* confidence and method.
C23_MalformedAsNetworkFailure ==
  \A i \in Inv :
    (DoneAsync(i) /\ InLog(i, "llm_done")) =>
      \A answer \in MalformedAnswers :
        SameVerdict(detectWithLLM(inv[i].text, answer),
                    detectWithLLM(inv[i].text, NetworkFailure))

\* C24: for the text of every invocation the remote stage has answered, a
\* response that cannot be parsed or that names a code that is not accepted
\* gives 'en', and the result of the remote stage is a result with a
\* supported language.
C24_UnreadableIsEnglish ==
  \A i \in Inv :
    (DoneAsync(i) /\ InLog(i, "llm_done")) =>
      /\ \A answer \in MalformedAnswers \cup UnacceptedAnswers :
           detectWithLLM(inv[i].text, answer).language = "en"
      /\ ~IsNull(inv[i].llmResult)
      /\ inv[i].llmResult.language \in SupportedLanguages

(***************************************************************************)
(* The returns after the remote-stage gate.                                *)
(***************************************************************************)
\* the invocation went past the gate without calling the remote stage
PastGate(i) ==
  /\ DoneAsync(i)
  /\ LocalStagesDeclined(i)
  /\ ~InLog(i, "llm_start")

MarkerCounts(text) ==
  [de |-> CountIn(text, GermanChars), fr |-> CountIn(text, FrenchChars),
   es |-> CountIn(text, SpanishChars)]

\* markers of more than one of German, French and Spanish
MixedMarkers(text) ==
  LET m == MarkerCounts(text)
  IN Cardinality({l \in {"de", "fr", "es"} : m[l] > 0}) >= 2

\* the class whose count is strictly larger than the two others, else "none"
StrictlyLargest(text) ==
  LET m == MarkerCounts(text)
      top == {l \in {"de", "fr", "es"} : \A o \in {"de", "fr", "es"} \ {l} : m[l] > m[o]}
  IN IF top = {} THEN "none" ELSE CHOOSE l \in top : TRUE

\* C27 as stated: for a text with markers of more than one class the sync
\* function, which returns the answer of the heuristic classifier, gives the
\* class of the strictly larger count and the default when no count is
\* strictly larger.
C27_Original ==
  \A i \in Inv :
    (DoneSync(i) /\ MixedMarkers(inv[i].text)
       /\ ~HasKana(inv[i].text) /\ ~HasCJK(inv[i].text)) =>
      IF StrictlyLargest(inv[i].text) = "none"
        THEN inv[i].result.method = "fallback"
        ELSE /\ inv[i].result.method = "charscan"
             /\ inv[i].result.language = StrictlyLargest(inv[i].text)

\* C27: for a text without kana and CJK characters that carries markers of
\* more than one of German, French and Spanish, the heuristic classifier does
\* not compare the counts: it answers 'es' whenever a Spanish marker is among
\* them and abstains whenever only German and French markers are.
C27_SpanishMarkerOrAbstain ==
  \A i \in Inv :
    (DoneSync(i) /\ MixedMarkers(inv[i].text)
       /\ ~HasKana(inv[i].text) /\ ~HasCJK(inv[i].text)) =>
      IF MarkerCounts(inv[i].text).es > 0
        THEN /\ inv[i].result.method = "charscan"
             /\ inv[i].result.language = "es"
             /\ ~IsNull(detectWithCharScan(inv[i].text))
        ELSE /\ inv[i].result.method = "fallback"
             /\ IsNull(detectWithCharScan(inv[i].text))

\* sharp-s and an inverted question mark, one each: 'es'
C27_Witness ==
  \E i \in Inv :
    /\ DoneSync(i)
    /\ inv[i].text = <<223, 191>>
    /\ inv[i].result.language = "es"

\* the five script counts of a text
ScriptSum(text) ==
  LET s == scanCharacters(text)
  IN s.chinese + s.japanese + s.german + s.french + s.spanish

\* C28 as stated: for the text of every invocation the five script counts
\* add up to at most the length of the text.
C28_Original ==
  \A i \in Inv : inv[i].kind # "none" => ScriptSum(inv[i].text) <= Len(inv[i].text)

\* C28: for the text of every invocation every count of the scanner lies in
\* 0..total, total is the length of the text, and the five script counts add
\* up to at most the length plus the number of u-umlauts, the one letter the
\* German and the French class share.
C28_ExclusiveButUmlaut ==
  \A i \in Inv :
    inv[i].kind # "none" =>
      LET text == inv[i].text
          s == scanCharacters(text)
      IN /\ s.total = Len(text)
         /\ \A f \in {"chinese", "japanese", "german", "french", "spanish", "accented"} :
              s[f] \in 0..s.total
         /\ ScriptSum(text) <= Len(text) + CountIn(text, {252, 220})

\* the scanner has counted u-umlaut twice
C28_Witness ==
  \E i \in Inv :
    /\ inv[i].kind = "sync"
    /\ inv[i].text = TextUmlaut
    /\ ScriptSum(inv[i].text) = 2

\* the characters the claim names: letters, digits, whitespace, . , ! ? ; : ' " ( ) -
PlainAscii(text) ==
  \A k \in 1..Len(text) :
    \/ text[k] \in 97..122 \cup 65..90 \cup 48..57
    \/ IsSpace(text[k])
    \/ text[k] \in {46, 44, 33, 63, 59, 58, 39, 34, 40, 41, 45}

EnglishByCharScan(r) ==
  /\ r.language = "en"
  /\ RatEQ(r.confidence, Rat(80, 100))
  /\ r.method = "charscan"

\* C29 as stated: for every non-empty text of plain ASCII characters the sync
\* function returns the answer of the heuristic classifier: 'en', 0.8,
\* 'charscan'.
C29_Original ==
  \A i \in Inv :
    (DoneSync(i) /\ Len(inv[i].text) > 0 /\ PlainAscii(inv[i].text)) =>
      EnglishByCharScan(inv[i].result)

\* C29: for every text of plain ASCII characters that is not blank (not empty
\* once trimmed) the heuristic classifier answers 'en', 0.8, 'charscan'.
C29_PlainAsciiNotBlank ==
  \A i \in Inv :
    (DoneSync(i) /\ TrimLength(inv[i].text) > 0 /\ PlainAscii(inv[i].text)) =>
      /\ EnglishByCharScan(inv[i].result)
      /\ EnglishByCharScan(detectWithCharScan(inv[i].text))

\* a letter after a space
C29_Witness ==
  \E i \in Inv :
    /\ DoneSync(i)
    /\ inv[i].text = <<32, 105>>
    /\ EnglishByCharScan(inv[i].result)

\* C30: an invocation with a non-empty text that returned the default with
\* method 'fallback' had called the remote stage, and the remote call had
\* failed.
C30_FallbackOnlyAfterRemote ==
  \A i \in Inv :
    (DoneAsync(i) /\ Len(inv[i].text) > 0 /\ TrimLength(inv[i].text) > 0
       /\ inv[i].result.method = "fallback") =>
      /\ InLog(i, "llm_done")
      /\ inv[i].llmAnswer \in {"neterr", "nonok", "badjson"}

\* C31: an invocation of hybridLanguageDetect on a text with a kana character
\* or a CJK ideograph never calls the remote stage, whatever the statistical
\* stage does, and returns the result of the statistical or of the heuristic
\* stage.
C31_ScriptTextsStayLocal ==
  \A i \in Inv :
    (inv[i].kind = "async" /\ (HasKana(inv[i].text) \/ HasCJK(inv[i].text))) =>
      /\ ~InLog(i, "llm_start")
      /\ inv[i].pc # "llm"
      /\ inv[i].pc = "done" => inv[i].result.method \in {"fasttext", "charscan"}

\* identify() has thrown for a text of one kana and one ideograph, and the
\* heuristic stage has answered
C31_Witness ==
  \E i \in Inv :
    /\ DoneAsync(i)
    /\ inv[i].text = <<12354, 20013>>
    /\ inv[i].ftOutcome = "threw"
    /\ inv[i].result.method = "charscan"
    /\ ~InLog(i, "llm_start")

\* the characters of the German, French and Spanish classes in a text, each
\* counted once
MarkerCharCount(text) == CountIn(text, GermanChars \cup FrenchChars \cup SpanishChars)

\* the score the six cases of C32 give a text
StatedLocalConfidence(text) ==
  LET markers == MarkerCharCount(text)
      tokens == WordCount(text)
  IN IF HasKana(text) \/ HasCJK(text) THEN Rat(85, 100)
     ELSE IF markers >= 2 \/ markers * 10 > Len(text) THEN Rat(80, 100)
     ELSE IF markers > 0 THEN Rat(60, 100)
     ELSE IF tokens >= 5 THEN Rat(65, 100)
     ELSE IF tokens >= 3 THEN Rat(55, 100)
     ELSE Rat(30, 100)

\* C32: the local-confidence score computed once both local stages have
\* declined is 0.85 for a text with kana or CJK characters; 0.8 when the
\* German/French/Spanish marker characters number at least 2 or exceed 10% of
\* the text, 0.6 when they are present but sparser; otherwise 0.65 for at least
\* 5 tokens, 0.55 for 3 or 4 tokens and 0.3 for at most 2 tokens.
C32_LocalConfidenceValues ==
  \A i \in Inv :
    LocalStagesDeclined(i) =>
      RatEQ(inv[i].localConfidence, StatedLocalConfidence(inv[i].text))

\* the calls other than those of S had all settled before call c was made
OnlyAfterOthers(c, S) == \A k \in Calls \ S : calls[k].op # "none" => k \in calls[c].after

\* C35: a getAllWords() made after clearAll() has completed, with every other
\* operation settled before clearAll() was called, returns the empty list.
C35_ClearAllEmpties ==
  \A c, g \in Calls :
    (/\ calls[c].op = "clearAll" /\ calls[c].pc = "done"
     /\ calls[g].op = "getAllWords" /\ calls[g].pc = "done"
     /\ c \in calls[g].after
     /\ OnlyAfterOthers(c, {c, g})) =>
      calls[g].ret = <<>>

\* C36: once two addWord requests for different texts, handled at the same
\* time with every other operation settled before either was made, have both
\* completed, the wordbook holds an entry for each of the two texts.
C36_NoLostUpdate ==
  \A a, b \in Calls :
    (/\ a # b
     /\ calls[a].op = "addWord" /\ calls[a].pc = "done"
     /\ calls[b].op = "addWord" /\ calls[b].pc = "done"
     /\ toLowerCase(calls[a].word.originalText) # toLowerCase(calls[b].word.originalText)
     /\ a \notin calls[b].after /\ b \notin calls[a].after
     /\ OnlyAfterOthers(a, {a, b}) /\ OnlyAfterOthers(b, {a, b})) =>
      LET words == (IF storageArea.present THEN storageArea ELSE DEFAULT_STORAGE).words
      IN \A k \in {a, b} :
           \E n \in 1..Len(words) : words[n].originalText = calls[k].word.originalText

\* C33: when the user selects different text while hybridLanguageDetect for an
\* earlier selection is in flight, that invocation of handleButtonClick starts
\* no translation once the detection resolves, and the panel never shows a
\* result for a text other than the selected one.
C33_StaleDetectionDiscarded ==
  /\ \A h \in Handlers : handlers[h].stale => handlers[h].pc # "translate"
  /\ (showPanel /\ selectedText # <<>> /\ result # NoTranslation) =>
       result.originalText = selectedText

\* C34: a response or an error that arrives for a request superseded by a
\* later translate() or by clear() changes neither result nor error, and
\* isLoading is true only while the latest request is in flight.
C34_SupersededIgnored ==
  /\ [][\A h \in Handlers :
          (/\ handlers[h].pc = "translate" /\ handlers[h].superseded
           /\ handlers'[h].pc = "done") =>
            (result' = result /\ error' = error)]_vars
  /\ [](isLoading =>
          \E h \in Handlers : handlers[h].pc = "translate" /\ ~handlers[h].superseded)

====
